---- MODULE Spec2Model ----
(***************************************************************************)
(* A model of kalacode's conversation memory and streaming protocol layer: *)
(*   - ShortTermMemory (src/kalacode/memory/short_term.py): the context    *)
(*     window with count/token eviction and tool-linkage sanitization;     *)
(*   - the stream assembly loop of Agent.process_user_input                *)
(*     (src/kalacode/core/agent.py), which rebuilds tool calls from        *)
(*     streamed deltas;                                                    *)
(*   - the agentic loop of Agent.process_user_input;                       *)
(*   - LongTermMemory (src/kalacode/memory/long_term.py), Agent.flush_ltm  *)
(*     and the commands of AgentRunner.run that call them;                 *)
(*   - the methods of LongTermMemory called one after another on a file,   *)
(*     and get_summary on a file given character by character;             *)
(*   - the system prompt and the message sequence of each submission, and  *)
(*     a user interrupt during a turn or a flush;                          *)
(*   - the display object the Agent is given, by the methods it has;       *)
(*   - Agent.__init__ on a MemoryConfig, add_messages beside add_message,  *)
(*     streams whose requests lack ids, and two processes storing into one *)
(*     long-term memory file.                                              *)
(*                                                                         *)
(* Optional Python values are modelled as sequences of length <= 1:        *)
(* <<>> is None, <<v>> is the value v.  Strings are TLA+ strings, so       *)
(* len() is Len and += is \o.  A missing dict key that the code reads with *)
(* .get(key) and tests for truthiness is modelled by the falsy value of    *)
(* its type ("" or <<>>).                                                  *)
(***************************************************************************)
EXTENDS Integers, Sequences, FiniteSets, TLC

VARIABLES
    \* ---- ShortTermMemory ----
    max_messages,       \* ShortTermMemory.max_messages
    max_tokens,         \* ShortTermMemory.max_tokens
    stm_messages,       \* ShortTermMemory.messages
    stm_op,             \* history: the last ShortTermMemory method called
    stm_prev,           \* history: ShortTermMemory.messages before that call
    stm_arg,            \* history: <<m>> when that call was add_message(m)
    \* ---- the provider stream and its assembly (locals of process_user_input) ----
    stream,             \* the chunks of the provider's streamed response
    pos,                \* how many chunks of it the for loop has consumed
    full_content,       \* full_content
    tool_calls,         \* tool_calls
    current_tool_call,  \* current_tool_call: <<>> is None
    context_messages,   \* context_messages, the messages of the last submission
    \* ---- Agent ----
    stm_enabled,        \* Agent.stm is not None (memory_config.enable_stm
                        \* while pc = "new")
    ltm_enabled,        \* Agent.ltm is not None (memory_config.enable_ltm
                        \* while pc = "new")
    messages,           \* Agent.messages
    ltm_buffer,         \* Agent._ltm_buffer
    pc,                 \* where process_user_input stands
    user_input,         \* user_input
    iteration,          \* iteration
    final_assistant_output, \* final_assistant_output
    assistant_calls,    \* assistant_message["tool_calls"]
    tool_results,       \* tool_results
    appended,           \* how many of lines 321-323's appends have run
    turn_report,        \* what the turn showed through display.error
    display,            \* Agent.display, by the names of its methods
    \* ---- LongTermMemory and Agent.flush_ltm ----
    ltm_doc,            \* the lines of the file at LongTermMemory.file_path
    max_entries,        \* LongTermMemory.max_entries
    clock,              \* datetime.now(timezone.utc), in seconds
    flush_log,          \* history: the calls the last flush_ltm made, in order
    flush_outcome,      \* history: how the last flush_ltm ended
    max_summary_chars,  \* LongTermMemory.max_summary_chars
    ltm_text,           \* the file by its characters, as get_summary reads
                        \* it and as the processes that share it write it
    ltm_call,           \* history: the last call made on the LongTermMemory
    sessions            \* the store_items calls of the processes that share
                        \* the file: where each stands, its locals, and
                        \* what of its write has yet to reach the file

stmVars == <<max_messages, max_tokens, stm_messages, stm_op, stm_prev, stm_arg>>

streamVars ==
    <<stream, pos, full_content, tool_calls, current_tool_call,
      context_messages>>

agentVars ==
    <<display, stm_enabled, ltm_enabled, messages, ltm_buffer, pc, user_input, iteration,
      final_assistant_output, assistant_calls, tool_results, appended, turn_report,
      display>>

\* The state of the LongTermMemory object and of its file.
\* What a store through flush_ltm leaves alone besides max_entries.
ltmDirect == <<max_summary_chars, ltm_text, ltm_call, sessions>>

ltmStore == <<ltm_doc, max_entries, clock, ltmDirect>>

ltmVars == <<ltm_doc, max_entries, clock, flush_log, flush_outcome, ltmDirect>>

vars == <<stmVars, streamVars, agentVars, ltmVars>>

-----------------------------------------------------------------------------
(* Bounds of the model                                                     *)

\* Largest max_messages the model configures a window with.
MaxMessagesBound == 3

\* Longest stream, in chunks, of the assembly specification.
MaxStreamLen == 4

\* A new turn starts only while Agent.messages holds fewer messages than this.
MaxHistory == 3

\* max_iterations of process_user_input.
max_iterations == 10

\* The default of LongTermMemory.max_entries.
DefaultMaxEntries == 500

\* The default of LongTermMemory.max_summary_chars.
DefaultMaxSummaryChars == 2000

\* The clock of the model stops at this second.
MaxClock == 2

\* The max_tokens budgets the model configures a window with: a negative
\* one, one that two or three small messages overflow, and the default.
TokenBudgets == {-1, 12, 100000}

-----------------------------------------------------------------------------
(* Messages                                                                *)

\* A tool_calls entry {"id", "type", "function": {"name", "arguments"}}.
ToolCall(id, name, arguments) ==
    [id |-> id, type |-> "function", name |-> name, arguments |-> arguments]

UserMsg(content) ==
    [role |-> "user", content |-> content, tool_calls |-> <<>>, tool_call_id |-> ""]

SystemMsg(content) ==
    [role |-> "system", content |-> content, tool_calls |-> <<>>, tool_call_id |-> ""]

AssistantMsg(content, calls) ==
    [role |-> "assistant", content |-> content, tool_calls |-> calls, tool_call_id |-> ""]

ToolMsg(id, content) ==
    [role |-> "tool", content |-> content, tool_calls |-> <<>>, tool_call_id |-> id]

\* The messages add_message is called with in the window specification.
MsgAlphabet ==
    { UserMsg("hi"),
      UserMsg("a longer question"),
      SystemMsg("note"),
      AssistantMsg("done", <<>>),
      AssistantMsg("", <<ToolCall("a1", "read", "{\"path\": \"x\"}")>>),
      AssistantMsg("", <<ToolCall("a1", "read", "{}"), ToolCall("a2", "grep", "{}")>>),
      AssistantMsg("", <<ToolCall("", "read", "{}")>>),
      ToolMsg("a1", "ok"),
      ToolMsg("a2", "error: tool 'grep' not found"),
      ToolMsg("", "ok") }

-----------------------------------------------------------------------------
(* TokenCounter                                                            *)

RECURSIVE ToolCallTokens(_)
ToolCallTokens(calls) ==
    IF calls = <<>> THEN 0
    ELSE (Len(Head(calls).name) \div 4) + (Len(Head(calls).arguments) \div 4)
         + ToolCallTokens(Tail(calls))

\* count_message without the names of the tool calls.
CountMessageWithoutNames(message) ==
    LET content_tokens == IF message.content # "" THEN Len(message.content) \div 4 ELSE 0
        calls          == message.tool_calls
        tool_tokens    == ToolCallTokens([k \in DOMAIN calls |->
                                             [calls[k] EXCEPT !.name = ""]])
        overhead       == 5
    IN  content_tokens + tool_tokens + overhead

\* TokenCounter.count_message
count_message(message) ==
    LET content_tokens == IF message.content # "" THEN Len(message.content) \div 4 ELSE 0
        tool_tokens    == ToolCallTokens(message.tool_calls)
        overhead       == 5
    IN  content_tokens + tool_tokens + overhead

\* TokenCounter.count_messages
RECURSIVE count_messages(_)
count_messages(msgs) ==
    IF msgs = <<>> THEN 0
    ELSE count_message(Head(msgs)) + count_messages(Tail(msgs))

-----------------------------------------------------------------------------
(* ShortTermMemory                                                         *)

\* Python's seq[n:] for n >= 0.
DropHead(seq, n) ==
    IF n >= Len(seq) THEN <<>> ELSE SubSeq(seq, n + 1, Len(seq))

\* A count limit that keeps the oldest messages instead of the newest.
CountTruncateDropsTail(msgs, maxm) ==
    IF Len(msgs) > maxm THEN SubSeq(msgs, 1, maxm) ELSE msgs

\* A count limit that is off by one and keeps max_messages + 1 messages.
CountTruncateKeepsOneMore(msgs, maxm) ==
    IF Len(msgs) > maxm + 1
    THEN DropHead(msgs, Len(msgs) - (maxm + 1))
    ELSE msgs

\* _maybe_truncate, lines 99-101: the message count limit.
CountTruncate(msgs, maxm) ==
    IF Len(msgs) > maxm
    THEN LET messages_to_remove == Len(msgs) - maxm
         IN  DropHead(msgs, messages_to_remove)
    ELSE msgs

\* A token limit loop without the floor of one message.
RECURSIVE TokenTruncateNoFloor(_, _)
TokenTruncateNoFloor(msgs, maxt) ==
    IF count_messages(msgs) > maxt /\ Len(msgs) > 0
    THEN TokenTruncateNoFloor(Tail(msgs), maxt)
    ELSE msgs

\* A token limit that drops at most one message (`if` for `while`).
TokenTruncateOnce(msgs, maxt) ==
    IF count_messages(msgs) > maxt /\ Len(msgs) > 1
    THEN Tail(msgs)
    ELSE msgs

\* _maybe_truncate, lines 104-108: the token limit loop.
RECURSIVE TokenTruncate(_, _)
TokenTruncate(msgs, maxt) ==
    IF count_messages(msgs) > maxt /\ Len(msgs) > 1
    THEN TokenTruncate(Tail(msgs), maxt)
    ELSE msgs

\* The ids an assistant message opens (lines 130-133): the truthy ones.
RECURSIVE CallIds(_)
CallIds(calls) ==
    IF calls = <<>> THEN {}
    ELSE (IF Head(calls).id # "" THEN {Head(calls).id} ELSE {})
         \cup CallIds(Tail(calls))

\* _sanitize_tool_message_sequence, the loop of lines 125-144, from a given
\* set of open tool call ids.
RECURSIVE SanitizeFrom(_, _)
SanitizeFrom(msgs, open_tool_call_ids) ==
    IF msgs = <<>> THEN <<>>
    ELSE LET message == Head(msgs)
             rest    == Tail(msgs)
         IN  IF message.role = "assistant" /\ message.tool_calls # <<>>
             THEN <<message>>
                  \o SanitizeFrom(rest, open_tool_call_ids \cup CallIds(message.tool_calls))
             ELSE IF message.role = "tool"
             THEN IF message.tool_call_id # ""
                     /\ message.tool_call_id \in open_tool_call_ids
                  THEN <<message>>
                       \o SanitizeFrom(rest, open_tool_call_ids \ {message.tool_call_id})
                  ELSE SanitizeFrom(rest, open_tool_call_ids)
             ELSE <<message>> \o SanitizeFrom(rest, open_tool_call_ids)

\* A sanitization that drops nothing.
SanitizeKeepsOrphans(msgs) == msgs

\* _sanitize_tool_message_sequence
Sanitize(msgs) == SanitizeFrom(msgs, {})

\* _maybe_truncate
MaybeTruncate(msgs, maxm, maxt) ==
    Sanitize(TokenTruncate(CountTruncate(msgs, maxm), maxt))

\* The window after add_message(message) on a window holding `msgs`.
AddMessageResult(msgs, message, maxm, maxt) ==
    MaybeTruncate(Append(msgs, message), maxm, maxt)

\* ShortTermMemory.add_message, as an update of the window variables.
StmAdd(message) ==
    /\ stm_messages' = AddMessageResult(stm_messages, message, max_messages, max_tokens)
    /\ stm_op' = "add_message"
    /\ stm_prev' = stm_messages
    /\ stm_arg' = <<message>>
    /\ UNCHANGED <<max_messages, max_tokens>>

\* ShortTermMemory.add_messages: the window after the call.
AddMessagesResult(msgs, batch, maxm, maxt) ==
    MaybeTruncate(msgs \o batch, maxm, maxt)

\* ShortTermMemory.add_messages, as an update of the window variables.
StmAddMessages(batch) ==
    /\ stm_messages' = AddMessagesResult(stm_messages, batch, max_messages, max_tokens)
    /\ stm_op' = "add_messages"
    /\ stm_prev' = stm_messages
    /\ stm_arg' = batch
    /\ UNCHANGED <<max_messages, max_tokens>>

\* ShortTermMemory.clear, as an update of the window variables.
StmClear ==
    /\ stm_messages' = <<>>
    /\ stm_op' = "clear"
    /\ stm_prev' = stm_messages
    /\ stm_arg' = <<>>
    /\ UNCHANGED <<max_messages, max_tokens>>

\* ShortTermMemory.__init__
StmInit ==
    /\ max_messages \in 1..MaxMessagesBound
    /\ max_tokens \in TokenBudgets
    /\ stm_messages = <<>>
    /\ stm_op = "init"
    /\ stm_prev = <<>>
    /\ stm_arg = <<>>

-----------------------------------------------------------------------------
(* The provider's stream                                                   *)

\* One entry of delta.tool_calls.  index is <<>> for None; id, type, name
\* and arguments are "" when the provider leaves them out (None), which the
\* code treats like "" (`x or ""`, `if x:`).
ToolCallDelta(index, id, type, name, arguments) ==
    [index |-> index, id |-> id, type |-> type, name |-> name, arguments |-> arguments]

\* A chunk with choices[0].delta holding a text delta and tool call deltas.
Chunk(content, deltas) ==
    [choices |-> <<[content |-> content, tool_calls |-> deltas]>>]

\* A chunk whose choices list is empty.
NoChoicesChunk == [choices |-> <<>>]

-----------------------------------------------------------------------------
(* Stream assembly: the for loop of process_user_input, lines 215-259      *)

\* A continue branch that assigns the delta instead of concatenating it.
FeedToolCallOverwrites(asm, tc_chunk) ==
    IF tc_chunk.index = <<>> THEN asm
    ELSE IF asm.current_tool_call = <<>>
            \/ tc_chunk.index[1] # asm.current_tool_call[1].index
    THEN [tool_calls |->
              IF asm.current_tool_call # <<>>
              THEN Append(asm.tool_calls, asm.current_tool_call[1])
              ELSE asm.tool_calls,
          current_tool_call |->
              <<[index |-> tc_chunk.index[1],
                 id |-> tc_chunk.id,
                 type |-> IF tc_chunk.type # "" THEN tc_chunk.type ELSE "function",
                 name |-> tc_chunk.name,
                 arguments |-> tc_chunk.arguments]>>]
    ELSE [asm EXCEPT
              !.current_tool_call[1].name =
                  IF tc_chunk.name # "" THEN tc_chunk.name ELSE @,
              !.current_tool_call[1].arguments =
                  IF tc_chunk.arguments # "" THEN tc_chunk.arguments ELSE @]

\* A new-call test that only opens a request on a greater index.
FeedToolCallOpensOnGreater(asm, tc_chunk) ==
    IF tc_chunk.index = <<>> THEN asm
    ELSE IF asm.current_tool_call = <<>>
            \/ tc_chunk.index[1] > asm.current_tool_call[1].index
    THEN [tool_calls |->
              IF asm.current_tool_call # <<>>
              THEN Append(asm.tool_calls, asm.current_tool_call[1])
              ELSE asm.tool_calls,
          current_tool_call |->
              <<[index |-> tc_chunk.index[1],
                 id |-> tc_chunk.id,
                 type |-> IF tc_chunk.type # "" THEN tc_chunk.type ELSE "function",
                 name |-> tc_chunk.name,
                 arguments |-> tc_chunk.arguments]>>]
    ELSE [asm EXCEPT
              !.current_tool_call[1].name =
                  IF tc_chunk.name # "" THEN @ \o tc_chunk.name ELSE @,
              !.current_tool_call[1].arguments =
                  IF tc_chunk.arguments # "" THEN @ \o tc_chunk.arguments ELSE @]

\* Lines 229-255 for one tc_chunk.  asm is [tool_calls, current_tool_call].
FeedToolCall(asm, tc_chunk) ==
    IF tc_chunk.index # <<>>
    THEN IF asm.current_tool_call = <<>>
            \/ tc_chunk.index[1] # asm.current_tool_call[1].index
         THEN \* New tool call
              [tool_calls |->
                   IF asm.current_tool_call # <<>>
                   THEN Append(asm.tool_calls, asm.current_tool_call[1])
                   ELSE asm.tool_calls,
               current_tool_call |->
                   <<[index |-> tc_chunk.index[1],
                      id |-> tc_chunk.id,
                      type |-> IF tc_chunk.type # "" THEN tc_chunk.type ELSE "function",
                      name |-> tc_chunk.name,
                      arguments |-> tc_chunk.arguments]>>]
         ELSE \* Continue existing tool call
              [asm EXCEPT
                   !.current_tool_call[1].name =
                       IF tc_chunk.name # "" THEN @ \o tc_chunk.name ELSE @,
                   !.current_tool_call[1].arguments =
                       IF tc_chunk.arguments # "" THEN @ \o tc_chunk.arguments ELSE @]
    ELSE \* a tc_chunk without index is skipped
         asm

\* Line 228: for tc_chunk in delta.tool_calls.
RECURSIVE FeedToolCalls(_, _)
FeedToolCalls(asm, deltas) ==
    IF deltas = <<>> THEN asm
    ELSE FeedToolCalls(FeedToolCall(asm, Head(deltas)), Tail(deltas))

\* The methods of the Display class.
DisplayMethods ==
    { "separator", "render_markdown", "header", "user_prompt", "message",
      "tool_call", "tool_result", "tool_output_line", "error", "info" }

\* The display objects an Agent is given: a Display, and objects that have
\* in addition stream_text, which process_user_input calls at line 223,
\* show_landing_page, which AgentRunner.run calls at line 473, or both.
Displays ==
    { DisplayMethods \cup more :
          more \in SUBSET {"stream_text", "show_landing_page"} }

\* One pass of the for loop, lines 215-255, on the next chunk of the stream.
\* A text fragment is shown through display.stream_text before it is added
\* to full_content; on a display without that method the call raises
\* AttributeError, which leaves process_user_input.
ProcessChunk ==
    /\ pc = "streaming"
    /\ pos < Len(stream)
    /\ pos' = pos + 1
    /\ LET chunk == stream[pos + 1]
       IN  IF chunk.choices = <<>>
           THEN UNCHANGED <<full_content, tool_calls, current_tool_call, pc,
                            turn_report>>
           ELSE LET delta == chunk.choices[1]
                    asm   == FeedToolCalls(
                                 [tool_calls |-> tool_calls,
                                  current_tool_call |-> current_tool_call],
                                 delta.tool_calls)
                IN  IF delta.content # "" /\ "stream_text" \notin display
                    THEN /\ pc' = "raised"
                         /\ turn_report' = "AttributeError"
                         /\ UNCHANGED <<full_content, tool_calls,
                                        current_tool_call>>
                    ELSE /\ full_content' =
                                IF delta.content # ""
                                THEN full_content \o delta.content
                                ELSE full_content
                         /\ tool_calls' = asm.tool_calls
                         /\ current_tool_call' = asm.current_tool_call
                         /\ UNCHANGED <<pc, turn_report>>
    /\ UNCHANGED <<ltmVars, stream, context_messages, stmVars, display,
                   stm_enabled, ltm_enabled, messages, ltm_buffer, user_input,
                   iteration, final_assistant_output, assistant_calls,
                   tool_results, appended>>

\* The stream is exhausted, lines 257-259: add the last tool call if any.
EndOfStream ==
    /\ pc = "streaming"
    /\ pos = Len(stream)
    /\ tool_calls' =
           IF current_tool_call # <<>>
           THEN Append(tool_calls, current_tool_call[1])
           ELSE tool_calls
    /\ pc' = "assembled"
    /\ UNCHANGED <<ltmVars, stream, pos, full_content, current_tool_call,
                   context_messages, stmVars, display, stm_enabled, ltm_enabled, messages, ltm_buffer, user_input,
                   iteration, final_assistant_output, assistant_calls,
                   tool_results, appended, turn_report>>

-----------------------------------------------------------------------------
(* json.loads and json.dumps on the argument payloads of the model         *)

\* json.loads(payload): a dict or a list with its items in order, or the
\* JSONDecodeError it raises.  Defined on the payloads the model's streams
\* assemble.
JsonLoads(payload) ==
    CASE payload = "{}" -> [kind |-> "dict", items |-> <<>>]
      [] payload \in {"{\"path\":\"x\"}", "{\"path\": \"x\"}"} ->
             [kind |-> "dict", items |-> << <<"path", "x">> >>]
      [] payload = "[]" -> [kind |-> "list", items |-> <<>>]
      [] payload \in {"", "{", "}"} -> [kind |-> "JSONDecodeError", items |-> <<>>]

\* The members of a dict of strings as json.dumps writes them.
RECURSIVE JsonMembers(_)
JsonMembers(items) ==
    IF items = <<>> THEN ""
    ELSE "\"" \o Head(items)[1] \o "\": \"" \o Head(items)[2] \o "\""
         \o (IF Tail(items) = <<>> THEN "" ELSE ", " \o JsonMembers(Tail(items)))

\* json.dumps(function_args) of a dict of strings.
JsonDumps(value) == "{" \o JsonMembers(value.items) \o "}"

-----------------------------------------------------------------------------
(* ToolRegistry                                                            *)

\* The names get_default_tools registers.
RegisteredTools == {"read", "write", "edit", "glob", "grep", "bash"}

HasKey(items, key) == \E k \in DOMAIN items : items[k][1] = key

\* Tool.execute of the registered tools the model's streams call, in an
\* environment where file x holds the line "hello".  The tool bodies catch
\* their own exceptions and return them as "error: ..." strings.
ToolBody(name, args) ==
    CASE name = "read" ->
             IF HasKey(args.items, "path") THEN "   1| hello" ELSE "error: 'path'"
      [] name = "bash" ->
             IF HasKey(args.items, "cmd") THEN "(empty)" ELSE "error: 'cmd'"

\* ToolRegistry.execute answering for a missing tool without the "error: "
\* in front.
ToolExecuteUnprefixed(name, args) ==
    IF name \notin RegisteredTools
    THEN "tool '" \o name \o "' not found"
    ELSE ToolBody(name, args)

\* ToolRegistry.execute
ToolExecute(name, args) ==
    IF name \notin RegisteredTools
    THEN "error: tool '" \o name \o "' not found"
    ELSE ToolBody(name, args)

-----------------------------------------------------------------------------
(* LongTermMemory (src/kalacode/memory/long_term.py)                       *)
(*                                                                         *)
(* The file is modelled as the sequence of its lines, each one ended by    *)
(* "\n".  A line is a record: plain text, a "### <timestamp>" heading, or  *)
(* a "- <text>" / "- [<TAG>] <text>" bullet.                               *)

TextLine(text) == [kind |-> "text", tag |-> "", text |-> text]

Heading(text) == [kind |-> "heading", tag |-> "", text |-> text]

Bullet(tag, text) == [kind |-> "bullet", tag |-> tag, text |-> text]

\* The bytes of one line of the file.
RenderLine(line) ==
    CASE line.kind = "text"    -> line.text \o "\n"
      [] line.kind = "heading" -> "### " \o line.text \o "\n"
      [] line.kind = "bullet"  ->
            (IF line.tag = "" THEN "- " ELSE "- [" \o line.tag \o "] ")
                \o line.text \o "\n"

\* The bytes of the file: Path.read_text.
RECURSIVE Render(_)
Render(doc) ==
    IF doc = <<>> THEN "" ELSE RenderLine(Head(doc)) \o Render(Tail(doc))

\* LongTermMemory._initial_template
InitialTemplate ==
    << TextLine("# Kalacode Long-Term Memory"),
       TextLine(""),
       TextLine("This file stores persistent memory across sessions."),
       TextLine("Only durable facts, preferences, and decisions are kept."),
       TextLine(""),
       TextLine("## Notes") >>

\* strftime("%Y-%m-%d %H:%M:%SZ") of the model's clock, which counts the
\* seconds of one minute.
Strftime(now) ==
    "2026-01-01 00:00:0" \o
        (CASE now = 0 -> "0" [] now = 1 -> "1" [] now = 2 -> "2"
           [] now = 3 -> "3" [] now = 4 -> "4" [] now = 5 -> "5"
           [] now = 6 -> "6" [] now = 7 -> "7" [] now = 8 -> "8"
           [] now = 9 -> "9") \o "Z"

\* A line of an extraction reply that is longer than 150 characters.
LongReplyLine ==
    "The deployment pipeline of the billing service runs on the s" \o
    "taging cluster every night at two, and its report is mailed " \o
    "to the platform team before the morning stand-up meeting."

\* Its first 150 characters.
LongItem ==
    "The deployment pipeline of the billing service runs on the s" \o
    "taging cluster every night at two, and its report is mailed " \o
    "to the platform team before th"

\* A sentence of a user that is longer than 150 characters and shorter
\* than 220.
LongSentence ==
    "I prefer that every public function of the payments package " \o
    "carries a docstring with one example, a note on its failure " \o
    "modes, and a link to the design page of the feature."

\* " ".join(LongItem.lower().split())
LongItemNormalized ==
    "the deployment pipeline of the billing service runs on the s" \o
    "taging cluster every night at two, and its report is mailed " \o
    "to the platform team before th"

\* " ".join(LongSentence.lower().split())
LongSentenceNormalized ==
    "i prefer that every public function of the payments package " \o
    "carries a docstring with one example, a note on its failure " \o
    "modes, and a link to the design page of the feature."

\* " ".join(text.lower().split()), on the item texts of the model.
Normalize(text) ==
    CASE text = "" -> ""
      [] text \in {"Uses pytest for tests", "uses  Pytest for tests",
                   "uses pytest for tests"} -> "uses pytest for tests"
      [] text \in {"I prefer tabs over spaces.",
                   "i prefer tabs over spaces."} -> "i prefer tabs over spaces."
      [] text \in {"We will use tabs from now on.",
                   "we will use tabs from now on."} ->
            "we will use tabs from now on."
      [] text \in {"Prefers tabs over spaces",
                   "prefers tabs over spaces"} -> "prefers tabs over spaces"
      [] text \in {LongItem, LongItemNormalized} -> LongItemNormalized
      [] text \in {LongSentence, LongSentenceNormalized} ->
            LongSentenceNormalized

\* sum of the sizes of SequenceMatcher(None, a, b).get_matching_blocks(),
\* on the normalized item texts of the model.  It is not symmetric.
MatchingChars(a, b) ==
    CASE a = b -> Len(a)
      [] a = "" \/ b = "" -> 0
      [] a = "uses pytest for tests" /\ b = "i prefer tabs over spaces." -> 9
      [] a = "uses pytest for tests" /\
         b = "we will use tabs from now on." -> 8
      [] a = "uses pytest for tests" /\ b = "prefers tabs over spaces" -> 3
      [] a = "uses pytest for tests" /\ b = LongItemNormalized -> 15
      [] a = "uses pytest for tests" /\ b = LongSentenceNormalized -> 17
      [] a = "i prefer tabs over spaces." /\ b = "uses pytest for tests" -> 9
      [] a = "i prefer tabs over spaces." /\
         b = "we will use tabs from now on." -> 12
      [] a = "i prefer tabs over spaces." /\
         b = "prefers tabs over spaces" -> 23
      [] a = "i prefer tabs over spaces." /\ b = LongItemNormalized -> 15
      [] a = "i prefer tabs over spaces." /\ b = LongSentenceNormalized -> 23
      [] a = "we will use tabs from now on." /\
         b = "uses pytest for tests" -> 6
      [] a = "we will use tabs from now on." /\
         b = "i prefer tabs over spaces." -> 11
      [] a = "we will use tabs from now on." /\
         b = "prefers tabs over spaces" -> 10
      [] a = "we will use tabs from now on." /\ b = LongItemNormalized -> 11
      [] a = "we will use tabs from now on." /\
         b = LongSentenceNormalized -> 19
      [] a = "prefers tabs over spaces" /\ b = "uses pytest for tests" -> 11
      [] a = "prefers tabs over spaces" /\
         b = "i prefer tabs over spaces." -> 23
      [] a = "prefers tabs over spaces" /\
         b = "we will use tabs from now on." -> 10
      [] a = "prefers tabs over spaces" /\ b = LongItemNormalized -> 17
      [] a = "prefers tabs over spaces" /\ b = LongSentenceNormalized -> 20
      [] a = LongItemNormalized /\ b = "uses pytest for tests" -> 11
      [] a = LongItemNormalized /\ b = "i prefer tabs over spaces." -> 15
      [] a = LongItemNormalized /\ b = "we will use tabs from now on." -> 14
      [] a = LongItemNormalized /\ b = "prefers tabs over spaces" -> 13
      [] a = LongItemNormalized /\ b = LongSentenceNormalized -> 23
      [] a = LongSentenceNormalized /\ b = "uses pytest for tests" -> 10
      [] a = LongSentenceNormalized /\ b = "i prefer tabs over spaces." -> 23
      [] a = LongSentenceNormalized /\ b = "we will use tabs from now on." -> 9
      [] a = LongSentenceNormalized /\ b = "prefers tabs over spaces" -> 20
      [] a = LongSentenceNormalized /\ b = LongItemNormalized -> 23

\* LongTermMemory.dedup_threshold, in hundredths.
dedup_threshold == 82

\* SequenceMatcher.ratio() >= dedup_threshold, where ratio is 2.0 * M / T
\* and 1.0 when T = 0.
RatioAtLeastThreshold(a, b) ==
    LET T == Len(a) + Len(b)
    IN  IF T = 0 THEN TRUE
        ELSE 200 * MatchingChars(a, b) >= dedup_threshold * T

IsTaggedBullet(line) == line.kind = "bullet" /\ line.tag # "" /\ line.text # ""

IsPlainBullet(line) == line.kind = "bullet" /\ line.tag = "" /\ line.text # ""

\* LongTermMemory._existing_item_texts: the tagged items, then the plain ones.
ExistingItemTexts(doc) ==
    LET tagged == SelectSeq(doc, IsTaggedBullet)
        plain  == SelectSeq(doc, IsPlainBullet)
    IN  [k \in DOMAIN tagged |-> Normalize(tagged[k].text)] \o
        [k \in DOMAIN plain |-> Normalize(plain[k].text)]

\* _is_fuzzy_duplicate comparing for equality instead of similarity.
IsExactDuplicate(candidate, existing_texts) ==
    \E k \in DOMAIN existing_texts : Normalize(candidate) = existing_texts[k]

\* LongTermMemory._is_fuzzy_duplicate
IsFuzzyDuplicate(candidate, existing_texts) ==
    \E k \in DOMAIN existing_texts :
        RatioAtLeastThreshold(Normalize(candidate), existing_texts[k])

\* The indexes of the lines where text.split("\n### ") cuts: a heading that
\* is not the first line of the file.
MarkerLines(doc) == { k \in DOMAIN doc : k > 1 /\ doc[k].kind = "heading" }

\* The index of the n-th marker, counted from 1.
NthMarker(doc, n) ==
    CHOOSE k \in MarkerLines(doc) :
        Cardinality({ j \in MarkerLines(doc) : j <= k }) = n

\* _trim_entries keeping notes[:max_entries], the oldest blocks.
TrimEntriesKeepsOldest(doc, limit) ==
    LET count == Cardinality(MarkerLines(doc))
    IN  IF count <= limit \/ limit = 0 THEN doc
        ELSE SubSeq(doc, 1, NthMarker(doc, limit + 1) - 2)

\* LongTermMemory._trim_entries.  notes[-0:] is the whole list, so a limit
\* of 0 trims nothing.
TrimEntries(doc, limit) ==
    LET count == Cardinality(MarkerLines(doc))
    IN  IF count <= limit \/ limit = 0 THEN doc
        ELSE SubSeq(doc, 1, NthMarker(doc, 1) - 1) \o
             SubSeq(doc, NthMarker(doc, count - limit + 1), Len(doc))

\* How the file system answers during one call: every operation succeeds,
\* reads are denied, or writes are denied.
FaultPoints == {"none", "read", "write"}

\* LongTermMemory.store_items without the returns of lines 74-75 and 82-83:
\* a dated block is written even when it holds no item.
StoreItemsAlwaysWrites(doc, items, limit, now, fault) ==
    IF fault # "none" THEN [doc |-> doc, raised |-> TRUE]
    ELSE LET existing_texts == ExistingItemTexts(doc)
             unique_items ==
                 SelectSeq(items,
                           LAMBDA item : ~IsFuzzyDuplicate(item, existing_texts))
             entry == <<TextLine(""), Heading(Strftime(now))>> \o
                      [k \in DOMAIN unique_items |-> Bullet("", unique_items[k])]
         IN  [doc |-> TrimEntries(doc \o entry, limit), raised |-> FALSE]

\* store_items with its reads and its write wrapped in a try block that
\* swallows the fault.
StoreItemsSwallowsFault(doc, items, limit, now, fault) ==
    IF fault # "none" THEN [doc |-> doc, raised |-> FALSE]
    ELSE LET existing_texts == ExistingItemTexts(doc)
             unique_items ==
                 SelectSeq(items,
                           LAMBDA item : ~IsFuzzyDuplicate(item, existing_texts))
             entry == <<TextLine(""), Heading(Strftime(now))>> \o
                      [k \in DOMAIN unique_items |-> Bullet("", unique_items[k])]
         IN  IF unique_items = <<>> THEN [doc |-> doc, raised |-> FALSE]
             ELSE [doc |-> TrimEntries(doc \o entry, limit), raised |-> FALSE]

\* store_items writing entry + notes instead of self.read() + entry: the new
\* block goes between the header and the blocks the file had.
StoreItemsNewestFirst(doc, items, limit, now, fault) ==
    IF items = <<>> THEN [doc |-> doc, raised |-> FALSE]
    ELSE IF fault = "read" THEN [doc |-> doc, raised |-> TRUE]
    ELSE LET existing_texts == ExistingItemTexts(doc)
             unique_items ==
                 SelectSeq(items,
                           LAMBDA item : ~IsFuzzyDuplicate(item, existing_texts))
             entry == <<TextLine(""), Heading(Strftime(now))>> \o
                      [k \in DOMAIN unique_items |-> Bullet("", unique_items[k])]
             first == IF MarkerLines(doc) = {} THEN Len(doc) + 1
                      ELSE NthMarker(doc, 1) - 1
         IN  IF unique_items = <<>> THEN [doc |-> doc, raised |-> FALSE]
             ELSE IF fault = "write" THEN [doc |-> doc, raised |-> TRUE]
             ELSE [doc |-> TrimEntries(SubSeq(doc, 1, first - 1) \o entry \o
                                       SubSeq(doc, first, Len(doc)), limit),
                   raised |-> FALSE]

\* LongTermMemory.store_items.  The result is the file afterwards and
\* whether the call raised.
StoreItems(doc, items, limit, now, fault) ==
    IF items = <<>> THEN [doc |-> doc, raised |-> FALSE]
    ELSE IF fault = "read" THEN [doc |-> doc, raised |-> TRUE]
    ELSE LET existing_texts == ExistingItemTexts(doc)
             unique_items ==
                 SelectSeq(items,
                           LAMBDA item : ~IsFuzzyDuplicate(item, existing_texts))
             entry == <<TextLine(""), Heading(Strftime(now))>> \o
                      [k \in DOMAIN unique_items |-> Bullet("", unique_items[k])]
         IN  IF unique_items = <<>> THEN [doc |-> doc, raised |-> FALSE]
             ELSE IF fault = "write" THEN [doc |-> doc, raised |-> TRUE]
             ELSE [doc |-> TrimEntries(doc \o entry, limit), raised |-> FALSE]

\* LongTermMemory._split_sentences, on the turn texts of the model.
SplitSentences(text) ==
    CASE text \in {"", "\n"} -> <<>>
      [] text = "hi" -> <<"hi">>
      [] text = "Done." -> <<"Done.">>
      [] text = "I prefer tabs over spaces. Is that ok?" ->
            <<"I prefer tabs over spaces.", "Is that ok?">>
      [] text = "We will use tabs from now on." ->
            <<"We will use tabs from now on.">>
      [] text = LongSentence -> <<LongSentence>>

\* LongTermMemory._is_transient, on the sentences of the model: shorter than
\* 12 characters, or holding one of the transient markers ("?", "done", ...).
IsTransient(sentence) ==
    \/ Len(sentence) < 12
    \/ sentence \in {"Is that ok?", "Done."}

\* LongTermMemory._classify_sentence, on the sentences of the model: "" is
\* None.
ClassifySentence(sentence, source) ==
    IF IsTransient(sentence) THEN ""
    ELSE IF sentence = "We will use tabs from now on." THEN "DECISION"
    ELSE IF source = "assistant" THEN ""
    ELSE IF sentence \in {"I prefer tabs over spaces.", LongSentence}
         THEN "PREFERENCE"
    ELSE ""

\* LongTermMemory._one_line with max_chars = 220: the sentences of the model
\* are single-spaced and no longer, so they come back as they are.
OneLine(sentence) == CASE Len(sentence) <= 220 -> sentence

\* The (KIND, text) pairs of the sentences of one source that the extractor
\* keeps.
RECURSIVE ClassifiedItems(_, _, _)
ClassifiedItems(sentences, source, kept_kinds) ==
    IF sentences = <<>> THEN <<>>
    ELSE LET kind == ClassifySentence(Head(sentences), source)
             rest == ClassifiedItems(Tail(sentences), source, kept_kinds)
         IN  IF kind \in kept_kinds
             THEN <<[kind |-> kind, text |-> OneLine(Head(sentences))]>> \o rest
             ELSE rest

\* LongTermMemory._extract_durable_items
ExtractDurableItems(user_text, assistant_text) ==
    LET items ==
            ClassifiedItems(SplitSentences(user_text), "user",
                            {"FACT", "PREFERENCE", "DECISION"}) \o
            ClassifiedItems(SplitSentences(assistant_text), "assistant",
                            {"DECISION"})
    IN  SubSeq(items, 1, IF Len(items) < 8 THEN Len(items) ELSE 8)

\* LongTermMemory._item_key
ItemKey(kind, text) == kind \o ":" \o Normalize(text)

\* LongTermMemory._existing_item_set
ExistingItemSet(doc) ==
    { ItemKey(doc[k].tag, doc[k].text) : k \in { j \in DOMAIN doc : IsTaggedBullet(doc[j]) } }

\* LongTermMemory.append_turn.  The result is the file afterwards and
\* whether the call raised.
AppendTurn(doc, user_text, assistant_text, limit, now, fault) ==
    LET items == ExtractDurableItems(user_text, assistant_text)
    IN  IF items = <<>> THEN [doc |-> doc, raised |-> FALSE]
        ELSE IF fault = "read" THEN [doc |-> doc, raised |-> TRUE]
        ELSE LET existing == ExistingItemSet(doc)
                 unique_items ==
                     SelectSeq(items,
                               LAMBDA item :
                                   ItemKey(item.kind, item.text) \notin existing)
                 entry == <<TextLine(""), Heading(Strftime(now))>> \o
                          [k \in DOMAIN unique_items |->
                              Bullet(unique_items[k].kind, unique_items[k].text)]
             IN  IF unique_items = <<>> THEN [doc |-> doc, raised |-> FALSE]
                 ELSE IF fault = "write" THEN [doc |-> doc, raised |-> TRUE]
                 ELSE [doc |-> TrimEntries(doc \o entry, limit), raised |-> FALSE]

\* clear calling _ensure_initialized instead of writing the template: a
\* file that exists is left as it is.
LtmClearEnsuresInitialized(doc, fault) == [doc |-> doc, raised |-> FALSE]

\* LongTermMemory.clear
LtmClear(doc, fault) ==
    IF fault = "write" THEN [doc |-> doc, raised |-> TRUE]
    ELSE [doc |-> InitialTemplate, raised |-> FALSE]

\* LongTermMemory.read of a file that exists: the text and whether the call
\* raised.  The file is left as it is.
LtmRead(doc, fault) ==
    IF fault = "read" THEN [doc |-> doc, raised |-> TRUE, result |-> <<>>]
    ELSE [doc |-> doc, raised |-> FALSE, result |-> <<Render(doc)>>]

\* The characters that str.strip() removes, among those of the model.
IsSpace(ch) == ch \in {" ", "\n", "\t", "\r"}

RECURSIVE LStrip(_)
LStrip(text) ==
    IF text # <<>> /\ IsSpace(Head(text)) THEN LStrip(Tail(text)) ELSE text

RECURSIVE RStrip(_)
RStrip(text) ==
    IF text # <<>> /\ IsSpace(text[Len(text)])
    THEN RStrip(SubSeq(text, 1, Len(text) - 1))
    ELSE text

\* str.strip(), on a text given as the sequence of its characters.
Strip(text) == RStrip(LStrip(text))

\* The slice text[-n:] for n >= 0.  -0 is 0, so text[-0:] is the whole text.
TailSlice(text, n) ==
    LET start == IF n = 0 \/ n > Len(text) THEN 0 ELSE Len(text) - n
    IN  SubSeq(text, start + 1, Len(text))

\* LongTermMemory.get_summary, on the characters that read() returned.
GetSummary(text, max_chars) ==
    LET stripped == Strip(text)
    IN  IF Len(stripped) <= max_chars THEN stripped
        ELSE TailSlice(stripped, max_chars)

-----------------------------------------------------------------------------
(* Agent.flush_ltm                                                         *)

\* A line of the extraction reply: "- <text>" when dash, <text> otherwise;
\* text is the line without its surrounding whitespace and its dash.
ReplyLine(dash, text) == [dash |-> dash, text |-> text]

\* What llm.chat_completion(stream=False) does for the extraction prompt: it
\* raises, answers nothing, or answers a list.
ExtractionReplies ==
    { [ok |-> FALSE, content |-> <<>>],
      [ok |-> TRUE, content |-> <<>>],
      [ok |-> TRUE,
       content |-> << ReplyLine(FALSE, "Here is what to remember:"),
                      ReplyLine(TRUE, "Uses pytest for tests"),
                      ReplyLine(TRUE, "") >>] }

\* item[:150], on the reply lines of the model.
Truncate150(item) ==
    CASE Len(item) <= 150 -> item
      [] item = LongReplyLine -> LongItem

IsItemLine(line) == line.dash /\ line.text # ""

\* Agent._extract_ltm_items_batch, lines 148-156: the items of the reply.
ExtractLtmItemsBatch(reply) ==
    LET lines == SelectSeq(reply.content, IsItemLine)
    IN  [k \in DOMAIN lines |-> Truncate150(lines[k].text)]

\* A call made by flush_ltm, for the history.
FlushCall(op, arg, raised) == [op |-> op, arg |-> arg, raised |-> raised]

\* The for loop of lines 170-171 stopping after the first buffered turn.
FallbackFirstTurnOnly(doc, turns, limit, now, fault) ==
    IF turns = <<>> THEN [doc |-> doc, log |-> <<>>, raised |-> FALSE]
    ELSE LET turn == Head(turns)
             done == AppendTurn(doc, turn[1], turn[2], limit, now, fault)
         IN  [doc |-> done.doc,
              log |-> <<FlushCall("append_turn", turn, done.raised)>>,
              raised |-> done.raised]

\* The for loop of lines 170-171 over the buffered turns: the file
\* afterwards, the calls made, and whether one of them raised.
RECURSIVE Fallback(_, _, _, _, _)
Fallback(doc, turns, limit, now, fault) ==
    IF turns = <<>> THEN [doc |-> doc, log |-> <<>>, raised |-> FALSE]
    ELSE LET turn == Head(turns)
             done == AppendTurn(doc, turn[1], turn[2], limit, now, fault)
             call == FlushCall("append_turn", turn, done.raised)
         IN  IF done.raised
             THEN [doc |-> done.doc, log |-> <<call>>, raised |-> TRUE]
             ELSE LET rest == Fallback(done.doc, Tail(turns), limit, now, fault)
                  IN  [doc |-> rest.doc, log |-> <<call>> \o rest.log,
                       raised |-> rest.raised]

\* The calls of the try block, lines 167-168.
BatchCalls(reply, items, store_raised) ==
    IF reply.ok
    THEN << FlushCall("chat_completion", ltm_buffer, FALSE),
            FlushCall("store_items", items, store_raised) >>
    ELSE << FlushCall("chat_completion", ltm_buffer, TRUE) >>

\* Lines 166-173 with the buffer cleared at the end of the try and except
\* blocks instead of in a finally block.
FlushBufferedClearsOnReturn(reply, fault_batch, fault_fallback, now) ==
    LET items  == ExtractLtmItemsBatch(reply)
        stored == StoreItems(ltm_doc, items, max_entries, now, fault_batch)
        after  == Fallback(ltm_doc, ltm_buffer, max_entries, now, fault_fallback)
    IN  /\ IF reply.ok /\ ~stored.raised
           THEN /\ ltm_doc' = stored.doc
                /\ flush_log' = BatchCalls(reply, items, stored.raised)
                /\ flush_outcome' = "returned"
                /\ ltm_buffer' = <<>>
           ELSE /\ ltm_doc' = after.doc
                /\ flush_log' = BatchCalls(reply, items, stored.raised) \o after.log
                /\ flush_outcome' = IF after.raised THEN "raised" ELSE "returned"
                /\ ltm_buffer' = IF after.raised THEN ltm_buffer ELSE <<>>
        /\ clock' = now
        /\ UNCHANGED <<max_entries, ltmDirect>>

\* Agent.flush_ltm, lines 166-173: the try, except and finally blocks.  The
\* provider's reply, the file system's behaviour on the batch path and on
\* the fallback path, and the time are the inputs.
FlushBuffered(reply, fault_batch, fault_fallback, now) ==
    LET items  == ExtractLtmItemsBatch(reply)
        stored == StoreItems(ltm_doc, items, max_entries, now, fault_batch)
        after  == Fallback(ltm_doc, ltm_buffer, max_entries, now, fault_fallback)
    IN  /\ IF reply.ok /\ ~stored.raised
           THEN /\ ltm_doc' = stored.doc
                /\ flush_log' = BatchCalls(reply, items, stored.raised)
                /\ flush_outcome' = "returned"
           ELSE /\ ltm_doc' = after.doc
                /\ flush_log' = BatchCalls(reply, items, stored.raised) \o after.log
                /\ flush_outcome' = IF after.raised THEN "raised" ELSE "returned"
        /\ ltm_buffer' = <<>>
        /\ clock' = now
        /\ UNCHANGED <<max_entries, ltmDirect>>

\* Lines 164-165: flush_ltm returns at once.
FlushSkipped ==
    /\ flush_log' = <<>>
    /\ flush_outcome' = "skipped"
    /\ UNCHANGED <<ltm_buffer, ltmStore>>

\* Agent.flush_ltm without the test of the buffer at line 164.
FlushLtmIgnoresEmptyBuffer(reply, fault_batch, fault_fallback, now) ==
    IF ~ltm_enabled
    THEN FlushSkipped
    ELSE FlushBuffered(reply, fault_batch, fault_fallback, now)

\* Agent.flush_ltm
FlushLtm(reply, fault_batch, fault_fallback, now) ==
    IF ~ltm_enabled \/ ltm_buffer = <<>>
    THEN FlushSkipped
    ELSE FlushBuffered(reply, fault_batch, fault_fallback, now)

-----------------------------------------------------------------------------
(* Agent                                                                   *)

\* Locals of a process_user_input that has not started a stream.
NoStream ==
    /\ stream = <<>>
    /\ pos = 0
    /\ full_content = ""
    /\ tool_calls = <<>>
    /\ current_tool_call = <<>>
    /\ context_messages = <<>>

\* The frame of process_user_input is gone: its stream locals are dropped.
DropStreamLocals ==
    /\ stream' = <<>>
    /\ pos' = 0
    /\ full_content' = ""
    /\ tool_calls' = <<>>
    /\ current_tool_call' = <<>>
    /\ context_messages' = <<>>

\* Agent._add_to_memory
AddToMemory(message) ==
    /\ messages' = Append(messages, message)
    /\ IF stm_enabled THEN StmAdd(message) ELSE UNCHANGED stmVars

\* str.strip() is empty, on the assistant outputs of the model.
IsBlank(text) == text \in {"", " ", "\n"}

\* Agent._append_to_ltm writing the turn to the file at once instead of
\* buffering it.
AppendToLtmWritesThrough(user, assistant_output) ==
    /\ ltm_doc' =
           IF ~ltm_enabled \/ IsBlank(assistant_output)
           THEN ltm_doc
           ELSE ltm_doc \o <<[kind |-> "bullet", tag |-> "", text |-> assistant_output]>>
    /\ UNCHANGED <<ltm_buffer, max_entries, clock, ltmDirect>>

\* Agent._append_to_ltm: the turn is buffered, the file is not touched.
AppendToLtm(user, assistant_output) ==
    /\ ltm_buffer' =
           IF ~ltm_enabled \/ IsBlank(assistant_output)
           THEN ltm_buffer
           ELSE Append(ltm_buffer, <<user, assistant_output>>)
    /\ UNCHANGED ltmStore

\* The text of one line of the file, without its line break.
LineText(line) ==
    CASE line.kind = "text"    -> line.text
      [] line.kind = "heading" -> "### " \o line.text
      [] line.kind = "bullet"  ->
            (IF line.tag = "" THEN "- " ELSE "- [" \o line.tag \o "] ")
                \o line.text

\* self.read().strip() as a string, for a file whose first line starts with
\* no whitespace and whose last line is not blank: the line break at the end
\* is all that strip() removes.
StrippedText(doc) ==
    IF doc = <<>> THEN ""
    ELSE Render(SubSeq(doc, 1, Len(doc) - 1)) \o LineText(doc[Len(doc)])

\* LongTermMemory.get_summary as a string, for the files of the agent
\* specification, which are no longer than max_summary_chars.
SummaryText(doc) ==
    CASE Len(StrippedText(doc)) <= max_summary_chars -> StrippedText(doc)

\* Agent.system_prompt when Agent.__init__ is given none, as by main():
\* _default_system_prompt(), with os.getcwd() the directory the program was
\* started in.
system_prompt ==
    "You are a helpful coding assistant.\n" \o
    "Current working directory: " \o "/root/workspace/validation" \o "\n\n" \o
    "Operate in ReAct style:\n" \o
    "1) Think briefly about the next best step.\n" \o
    "2) Act by calling a tool when needed.\n" \o
    "3) Observe tool output and iterate.\n" \o
    "4) Respond only when you have enough evidence.\n\n" \o
    "Rules:\n" \o
    "- Prefer tool calls over guessing for file/system facts.\n" \o
    "- Keep user-facing reasoning concise; do not dump long internal deliberation.\n" \o
    "- If a tool fails, adjust and retry with a better action.\n" \o
    "- For code changes, verify with a relevant command before final response.\n" \o
    "- When done, provide a direct, actionable answer."

\* Agent._get_context_messages
GetContextMessages == IF stm_enabled THEN stm_messages ELSE messages

\* Agent._build_system_prompt
BuildSystemPrompt ==
    IF ltm_enabled /\ SummaryText(ltm_doc) # ""
    THEN system_prompt \o
         "\n\nLong-term memory (markdown summary, may be partial):\n" \o
         SummaryText(ltm_doc)
    ELSE system_prompt

\* _build_api_messages taking Agent.messages whether or not the window is
\* enabled.
BuildApiMessagesFromHistory == <<SystemMsg(BuildSystemPrompt)>> \o messages

\* Agent._build_api_messages
BuildApiMessages == <<SystemMsg(BuildSystemPrompt)>> \o GetContextMessages

\* What the user types in the agent specification.
UserInputs == {"hi"}

\* The streams the provider answers with in the agent specification: a text
\* answer; two tool calls, the first split over two chunks and the second
\* naming a tool that is not registered; two tool calls, the first lacking
\* the argument its tool reads and the second with arguments that never
\* arrive; a text answer that is a line break only.
AgentStreams ==
    { << Chunk("Done.", <<>>) >>,
      << Chunk("", <<ToolCallDelta(<<0>>, "b1", "function", "rea", "")>>),
         Chunk("", <<ToolCallDelta(<<0>>, "", "", "d", "{\"path\":\"x\"}"),
                     ToolCallDelta(<<1>>, "b2", "function", "fetch", "{}")>>) >>,
      << Chunk("", <<ToolCallDelta(<<0>>, "c0", "function", "bash", "{}"),
                     ToolCallDelta(<<1>>, "c1", "function", "bash", "")>>) >>,
      << Chunk("\n", <<>>) >> }

\* process_user_input, lines 181-189: a turn starts with the user message.
StartTurn ==
    /\ pc = "idle"
    /\ Len(messages) < MaxHistory
    /\ \E text \in UserInputs : 
          /\ user_input' = text
          /\ AddToMemory(UserMsg(text))
    /\ iteration' = 0
    /\ final_assistant_output' = ""
    /\ turn_report' = ""
    /\ flush_log' = <<>>
    /\ flush_outcome' = "none"
    /\ pc' = "loop_head"
    /\ UNCHANGED <<ltmStore, streamVars, display, stm_enabled, ltm_enabled, ltm_buffer,
                   assistant_calls, tool_results, appended>>

\* Lines 191-206 with the while condition iteration <= max_iterations.
SubmitOnceMore ==
    /\ pc = "loop_head"
    /\ iteration <= max_iterations
    /\ iteration' = iteration + 1
    /\ context_messages' = BuildApiMessages
    /\ stream' \in AgentStreams
    /\ pos' = 0
    /\ full_content' = ""
    /\ tool_calls' = <<>>
    /\ current_tool_call' = <<>>
    /\ pc' = "streaming"
    /\ UNCHANGED <<ltmVars, stmVars, display, stm_enabled, ltm_enabled, messages,
                   ltm_buffer, user_input, final_assistant_output,
                   assistant_calls, tool_results, appended, turn_report>>

\* Lines 191-206: the loop goes on and the context is submitted; the
\* provider answers with a stream.
Submit ==
    /\ pc = "loop_head"
    /\ iteration < max_iterations
    /\ iteration' = iteration + 1
    /\ context_messages' = BuildApiMessages
    /\ stream' \in AgentStreams
    /\ pos' = 0
    /\ full_content' = ""
    /\ tool_calls' = <<>>
    /\ current_tool_call' = <<>>
    /\ pc' = "streaming"
    /\ UNCHANGED <<ltmVars, stmVars, display, stm_enabled, ltm_enabled, messages, ltm_buffer,
                   user_input, final_assistant_output, assistant_calls,
                   tool_results, appended, turn_report>>

\* The streams of the agent specification whose requests lack an id or
\* share one: a text answer, and three tool calls of which the first never
\* gets an id and the other two arrive with the same id, and one tool call
\* without an id whose arguments never arrive.
UnkeyedStreams ==
    { << Chunk("Done.", <<>>) >>,
      << Chunk("", <<ToolCallDelta(<<0>>, "", "function", "read", "{\"path\":\"x\"}"),
                     ToolCallDelta(<<1>>, "d1", "function", "read", "{}"),
                     ToolCallDelta(<<2>>, "d1", "function", "fetch", "{}")>>) >>,
      << Chunk("", <<ToolCallDelta(<<0>>, "", "function", "bash", "")>>) >> }

\* Lines 191-206 when the provider answers with one of UnkeyedStreams.
SubmitUnkeyed ==
    /\ pc = "loop_head"
    /\ iteration < max_iterations
    /\ iteration' = iteration + 1
    /\ context_messages' = BuildApiMessages
    /\ stream' \in UnkeyedStreams
    /\ pos' = 0
    /\ full_content' = ""
    /\ tool_calls' = <<>>
    /\ current_tool_call' = <<>>
    /\ pc' = "streaming"
    /\ UNCHANGED <<ltmVars, stmVars, display, stm_enabled, ltm_enabled, messages, ltm_buffer,
                   user_input, final_assistant_output, assistant_calls,
                   tool_results, appended, turn_report>>

\* Line 191: the while condition fails.
LoopExit ==
    /\ pc = "loop_head"
    /\ ~(iteration < max_iterations)
    /\ pc' = "after_loop"
    /\ UNCHANGED <<ltmVars, stmVars, streamVars, display, stm_enabled, ltm_enabled, messages,
                   ltm_buffer, user_input, iteration, final_assistant_output,
                   assistant_calls, tool_results, appended, turn_report>>

\* Lines 264-268 without the break: the loop goes on after a text answer.
RouteFinalKeepsLooping ==
    /\ pc = "assembled"
    /\ tool_calls = <<>>
    /\ AddToMemory(AssistantMsg(full_content, <<>>))
    /\ final_assistant_output' = full_content
    /\ pc' = "loop_head"
    /\ UNCHANGED <<ltmVars, streamVars, display, stm_enabled, ltm_enabled, ltm_buffer,
                   user_input, iteration, assistant_calls, tool_results,
                   appended, turn_report>>

\* Lines 264-268: no tool calls, the turn is complete.
RouteFinal ==
    /\ pc = "assembled"
    /\ tool_calls = <<>>
    /\ AddToMemory(AssistantMsg(full_content, <<>>))
    /\ final_assistant_output' = full_content
    /\ pc' = "after_loop"
    /\ UNCHANGED <<ltmVars, streamVars, display, stm_enabled, ltm_enabled, ltm_buffer, user_input,
                   iteration, assistant_calls, tool_results, appended, turn_report>>

\* Lines 270-278 with the assistant message appended before its requests
\* are dispatched.
RouteToolsAppendsFirst ==
    /\ pc = "assembled"
    /\ tool_calls # <<>>
    /\ AddToMemory(AssistantMsg(full_content,
                                [k \in DOMAIN tool_calls |->
                                    ToolCall(tool_calls[k].id, tool_calls[k].name,
                                             tool_calls[k].arguments)]))
    /\ assistant_calls' = <<>>
    /\ tool_results' = <<>>
    /\ appended' = 0
    /\ pc' = "dispatch"
    /\ UNCHANGED <<ltmVars, streamVars, display, stm_enabled, ltm_enabled, ltm_buffer,
                   user_input, iteration, final_assistant_output, turn_report>>

\* Lines 270-278: tool calls were assembled.
RouteTools ==
    /\ pc = "assembled"
    /\ tool_calls # <<>>
    /\ assistant_calls' = <<>>
    /\ tool_results' = <<>>
    /\ appended' = 0
    /\ pc' = "dispatch"
    /\ UNCHANGED <<ltmVars, stmVars, streamVars, display, stm_enabled, ltm_enabled, messages,
                   ltm_buffer, user_input, iteration, final_assistant_output,
                   turn_report>>

\* One pass of the for loop of lines 279-318.  json.loads raising, or
\* .values() on a value that is no dict, leaves process_user_input with the
\* exception.
DispatchTool ==
    /\ pc = "dispatch"
    /\ Len(tool_results) < Len(tool_calls)
    /\ LET tool_call     == tool_calls[Len(tool_results) + 1]
           function_name == tool_call.name
           function_args == JsonLoads(tool_call.arguments)
       IN  IF function_args.kind = "JSONDecodeError"
           THEN /\ pc' = "raised"
                /\ turn_report' = "JSONDecodeError"
                /\ UNCHANGED <<assistant_calls, tool_results>>
           ELSE IF function_args.kind # "dict"
           THEN /\ pc' = "raised"
                /\ turn_report' = "AttributeError"
                /\ UNCHANGED <<assistant_calls, tool_results>>
           ELSE LET result == ToolExecute(function_name, function_args)
                IN  /\ assistant_calls' =
                           Append(assistant_calls,
                                  ToolCall(tool_call.id, function_name,
                                           JsonDumps(function_args)))
                    /\ tool_results' =
                           Append(tool_results, ToolMsg(tool_call.id, result))
                    /\ pc' = IF Len(tool_results) + 1 = Len(tool_calls)
                             THEN "append" ELSE "dispatch"
                    /\ UNCHANGED turn_report
    /\ UNCHANGED <<ltmVars, stmVars, streamVars, display, stm_enabled, ltm_enabled, messages,
                   ltm_buffer, user_input, iteration, final_assistant_output,
                   appended>>

\* Lines 321-323, one _add_to_memory call at a time: the assistant message,
\* then each tool result.
AppendNext ==
    /\ pc = "append"
    /\ IF appended = 0
       THEN AddToMemory(AssistantMsg(full_content, assistant_calls))
       ELSE AddToMemory(tool_results[appended])
    /\ appended' = appended + 1
    /\ pc' = IF appended = Len(tool_results) THEN "loop_head" ELSE "append"
    /\ UNCHANGED <<ltmVars, streamVars, display, stm_enabled, ltm_enabled, ltm_buffer, user_input,
                   iteration, final_assistant_output, assistant_calls,
                   tool_results, turn_report>>

\* Lines 325-328 without the display.error call.
AfterLoopNeverReports ==
    /\ pc = "after_loop"
    /\ IF iteration >= max_iterations
       THEN UNCHANGED <<ltm_buffer, ltmStore>>
       ELSE AppendToLtm(user_input, final_assistant_output)
    /\ pc' = "idle"
    /\ DropStreamLocals
    /\ assistant_calls' = <<>>
    /\ tool_results' = <<>>
    /\ appended' = 0
    /\ UNCHANGED <<stmVars, display, stm_enabled, ltm_enabled, messages, user_input,
                   iteration, final_assistant_output, turn_report, flush_log,
                   flush_outcome>>

\* Lines 325-328, and process_user_input returns.
AfterLoop ==
    /\ pc = "after_loop"
    /\ IF iteration >= max_iterations
       THEN /\ turn_report' = "Max iterations reached"
            /\ UNCHANGED <<ltm_buffer, ltmStore>>
       ELSE /\ AppendToLtm(user_input, final_assistant_output)
            /\ UNCHANGED turn_report
    /\ pc' = "idle"
    /\ DropStreamLocals
    /\ assistant_calls' = <<>>
    /\ tool_results' = <<>>
    /\ appended' = 0
    /\ UNCHANGED <<stmVars, display, stm_enabled, ltm_enabled, messages, user_input,
                   iteration, final_assistant_output, flush_log, flush_outcome>>

\* AgentRunner.run, lines 513-514: an exception of the turn is shown and the
\* REPL goes on.
HandleException ==
    /\ pc = "raised"
    /\ pc' = "idle"
    /\ DropStreamLocals
    /\ assistant_calls' = <<>>
    /\ tool_results' = <<>>
    /\ appended' = 0
    /\ UNCHANGED <<ltmVars, stmVars, display, stm_enabled, ltm_enabled, messages, ltm_buffer,
                   user_input, iteration, final_assistant_output, turn_report>>

\* reset_conversation clearing Agent._ltm_buffer together with the
\* conversation before it calls flush_ltm, which then finds nothing to flush.
ResetClearsBeforeFlush ==
    /\ pc = "idle"
    /\ ltm_buffer' = <<>>
    /\ flush_log' = <<>>
    /\ flush_outcome' = "skipped"
    /\ turn_report' = ""
    /\ messages' = <<>>
    /\ IF stm_enabled THEN StmClear ELSE UNCHANGED stmVars
    /\ UNCHANGED <<streamVars, display, stm_enabled, ltm_enabled, pc, user_input,
                   iteration, final_assistant_output, assistant_calls,
                   tool_results, appended, ltmStore>>

\* The /c command: AgentRunner._handle_command, lines 421-424, calls
\* Agent.reset_conversation; an exception leaving it is shown by the handler
\* of AgentRunner.run, lines 513-514, and the REPL goes on.
ResetConversation ==
    /\ pc = "idle"
    /\ \E reply \in ExtractionReplies, fault_batch \in FaultPoints,
          fault_fallback \in FaultPoints, now \in clock..MaxClock :
          FlushLtm(reply, fault_batch, fault_fallback, now)
    /\ IF flush_outcome' = "raised"
       THEN /\ turn_report' = "PersistenceError"
            /\ UNCHANGED <<messages, stmVars>>
       ELSE /\ turn_report' = ""
            /\ messages' = <<>>
            /\ IF stm_enabled THEN StmClear ELSE UNCHANGED stmVars
    /\ UNCHANGED <<streamVars, display, stm_enabled, ltm_enabled, pc, user_input,
                   iteration, final_assistant_output, assistant_calls,
                   tool_results, appended>>

\* The /q command, or end of input at the prompt: the REPL loop is left and
\* AgentRunner.run, line 516, calls flush_ltm outside its try statement.  An
\* exception leaves run(); main() shows it and exits with status 1.
Quit ==
    /\ pc = "idle"
    /\ \E reply \in ExtractionReplies, fault_batch \in FaultPoints,
          fault_fallback \in FaultPoints, now \in clock..MaxClock :
          FlushLtm(reply, fault_batch, fault_fallback, now)
    /\ IF flush_outcome' = "raised"
       THEN /\ turn_report' = "PersistenceError"
            /\ pc' = "crashed"
       ELSE /\ turn_report' = ""
            /\ pc' = "exited"
    /\ UNCHANGED <<stmVars, streamVars, display, stm_enabled, ltm_enabled, messages,
                   user_input, iteration, final_assistant_output,
                   assistant_calls, tool_results, appended>>

\* flush_ltm left by a KeyboardInterrupt while chat_completion, line 141,
\* waits for the extraction: no except clause of flush_ltm takes it, the
\* finally block clears the buffer, nothing is stored.
FlushInterrupted ==
    /\ ltm_enabled
    /\ ltm_buffer # <<>>
    /\ flush_log' = <<FlushCall("chat_completion", ltm_buffer, TRUE)>>
    /\ flush_outcome' = "raised"
    /\ ltm_buffer' = <<>>
    /\ UNCHANGED ltmStore

\* KeyboardInterrupt while chat_completion, line 197, waits for the stream,
\* while the for loop of line 215 waits for the next chunk, or while
\* tools.execute, line 289, waits for its tool: the exception leaves
\* process_user_input, AgentRunner.run leaves its loop at lines 510-512 and
\* calls flush_ltm at line 516.  The locals of the turn stay as they were;
\* at line 197 the iteration was counted and the submission built.  A
\* second KeyboardInterrupt during that flush leaves run(), and main() exits
\* with status 0 at lines 73-75.
Interrupt ==
    /\ pc \in {"loop_head", "streaming", "dispatch"}
    /\ IF pc = "loop_head"
       THEN /\ iteration < max_iterations
            /\ iteration' = iteration + 1
            /\ context_messages' = BuildApiMessages
       ELSE UNCHANGED <<iteration, context_messages>>
    /\ \/ /\ \E reply \in ExtractionReplies, fault_batch \in FaultPoints,
                 fault_fallback \in FaultPoints, now \in clock..MaxClock :
                 FlushLtm(reply, fault_batch, fault_fallback, now)
          /\ IF flush_outcome' = "raised"
             THEN /\ turn_report' = "PersistenceError"
                  /\ pc' = "crashed"
             ELSE /\ turn_report' = ""
                  /\ pc' = "exited"
       \/ /\ FlushInterrupted
          /\ turn_report' = ""
          /\ pc' = "exited"
    /\ UNCHANGED <<stmVars, stream, pos, full_content, tool_calls,
                   current_tool_call, display, stm_enabled, ltm_enabled,
                   messages, user_input, final_assistant_output,
                   assistant_calls, tool_results, appended>>

\* KeyboardInterrupt while a command waits for the extraction of flush_ltm.
\* After /q the exception leaves run() from line 516 and main() exits with
\* status 0.  During /c it leaves reset_conversation before line 80, so the
\* conversation stays; run() leaves its loop at lines 510-512 and its
\* flush_ltm of line 516 finds the buffer empty.
InterruptCommand ==
    /\ pc = "idle"
    /\ \/ FlushInterrupted
       \/ /\ ltm_enabled
          /\ ltm_buffer # <<>>
          /\ flush_log' = <<>>
          /\ flush_outcome' = "skipped"
          /\ ltm_buffer' = <<>>
          /\ UNCHANGED ltmStore
    /\ turn_report' = ""
    /\ pc' = "exited"
    /\ UNCHANGED <<stmVars, streamVars, display, stm_enabled, ltm_enabled,
                   messages, user_input, iteration, final_assistant_output,
                   assistant_calls, tool_results, appended>>

\* The /memory clear command: AgentRunner._handle_command, lines 453-459.
MemoryClear ==
    /\ pc = "idle"
    /\ IF ltm_enabled
       THEN \E fault \in {"none", "write"} :
               LET done == LtmClear(ltm_doc, fault)
               IN  /\ ltm_doc' = done.doc
                   /\ turn_report' =
                          IF done.raised THEN "PersistenceError" ELSE ""
       ELSE /\ turn_report' = ""
            /\ UNCHANGED ltm_doc
    /\ flush_log' = <<>>
    /\ flush_outcome' = "none"
    /\ UNCHANGED <<stmVars, streamVars, display, stm_enabled, ltm_enabled, messages,
                   ltm_buffer, pc, user_input, iteration,
                   final_assistant_output, assistant_calls, tool_results,
                   appended, max_entries, clock, ltmDirect>>

\* Agent.__init__, lines 34-57, apart from the position of the turn.
AgentFieldsInit ==
    /\ messages = <<>>
    /\ ltm_buffer = <<>>
    /\ user_input = ""
    /\ iteration = 0
    /\ final_assistant_output = ""
    /\ assistant_calls = <<>>
    /\ tool_results = <<>>
    /\ appended = 0
    /\ turn_report = ""

\* Agent.__init__: no turn is running.  AgentRunner.run has shown its
\* landing page, so the display has show_landing_page.
AgentInit ==
    /\ AgentFieldsInit
    /\ pc = "idle"
    /\ display \in { d \in Displays : "show_landing_page" \in d }

\* The fields of the MemoryConfig dataclass, config.py lines 12-18.
MemoryConfigFields ==
    { "max_context_tokens", "max_recent_messages", "enable_stm", "enable_ltm",
      "ltm_file_path", "ltm_max_summary_chars", "ltm_max_entries" }

\* MemoryConfig.max_recent_messages when nothing sets it.
DefaultMaxRecentMessages == 20

\* MemoryConfig.max_context_tokens when nothing sets it.
DefaultMaxContextTokens == 100000

\* The attributes of self.memory_config that Agent.__init__ reads to build
\* the LongTermMemory, lines 45-48.
LtmAttributesRead ==
    { "ltm_file_path", "ltm_max_summary_chars", "ltm_max_entries",
      "ltm_dedup_threshold" }

\* getattr on a MemoryConfig raises AttributeError for a name that is not
\* one of its fields.
RaisesAttributeError(name) == name \notin MemoryConfigFields

\* Agent.__init__, lines 28-57, called by main() at __main__.py line 63 with
\* the memory_config whose fields the variables hold.  The ShortTermMemory
\* takes max_context_tokens and max_recent_messages, the LongTermMemory the
\* attributes of lines 45-48; an exception leaves main() through its handler
\* at lines 76-78, which shows it and exits with status 1.
AgentNew ==
    /\ pc = "new"
    /\ IF ltm_enabled /\ \E name \in LtmAttributesRead : RaisesAttributeError(name)
       THEN /\ pc' = "crashed"
            /\ turn_report' = "AttributeError"
            /\ UNCHANGED <<messages, ltm_buffer>>
       ELSE /\ pc' = "constructed"
            /\ turn_report' = ""
            /\ messages' = <<>>
            /\ ltm_buffer' = <<>>
    /\ UNCHANGED <<stmVars, streamVars, display, stm_enabled, ltm_enabled, user_input,
                   iteration, final_assistant_output, assistant_calls,
                   tool_results, appended, ltmVars>>

\* AgentRunner.run, lines 467-488, called by main() at __main__.py line 71:
\* the landing page and the memory lines are shown before the first prompt.
\* On a display without show_landing_page line 473 raises AttributeError,
\* which leaves main() through its handler at lines 76-78 with status 1.
RunStart ==
    /\ pc = "constructed"
    /\ IF "show_landing_page" \in display
       THEN /\ pc' = "idle"
            /\ UNCHANGED turn_report
       ELSE /\ pc' = "crashed"
            /\ turn_report' = "AttributeError"
    /\ UNCHANGED <<stmVars, streamVars, display, stm_enabled, ltm_enabled,
                   messages, ltm_buffer, user_input, iteration,
                   final_assistant_output, assistant_calls, tool_results,
                   appended, ltmVars>>

\* No flush_ltm call has been made.
NoFlush ==
    /\ flush_log = <<>>
    /\ flush_outcome = "none"

\* A call made on the LongTermMemory, for the history: the method, its
\* argument, how the file system answered, the file before the call, whether
\* the call raised, and what it returned (<<>> is None, <<v>> the value v).
LtmCall(op, arg, fault, before, raised, result) ==
    [op |-> op, arg |-> arg, fault |-> fault, before |-> before,
     raised |-> raised, result |-> result]

\* No method of the LongTermMemory has been called from outside the agent;
\* max_summary_chars has its default.
NoDirectCall ==
    /\ max_summary_chars = DefaultMaxSummaryChars
    /\ ltm_text = <<>>
    /\ ltm_call = LtmCall("none", <<>>, "none", <<>>, FALSE, <<>>)
    /\ sessions = <<>>

\* LongTermMemory.__post_init__ on a path where no file exists, with the
\* default max_entries.
LtmInit ==
    /\ ltm_doc = InitialTemplate
    /\ max_entries = DefaultMaxEntries
    /\ clock = 1
    /\ NoFlush
    /\ NoDirectCall

-----------------------------------------------------------------------------
(* The window specification: any sequence of add_message and clear calls.  *)

Init ==
    /\ StmInit
    /\ NoStream
    /\ AgentInit
    /\ "stream_text" \in display
    /\ stm_enabled = TRUE
    /\ ltm_enabled = FALSE
    /\ LtmInit

add_message ==
    /\ \E message \in MsgAlphabet : StmAdd(message)
    /\ UNCHANGED <<ltmVars, streamVars, agentVars>>

clear ==
    /\ StmClear
    /\ UNCHANGED <<ltmVars, streamVars, agentVars>>

Next == add_message \/ clear

Spec == Init /\ [][Next]_vars

-----------------------------------------------------------------------------
(* The assembly specification: the for loop run over every stream of at    *)
(* most MaxStreamLen chunks.                                               *)

\* The chunks the streams of the assembly specification are made of.
ChunkAlphabet ==
    { NoChoicesChunk,
      Chunk("Hi", <<>>),
      Chunk("", <<ToolCallDelta(<<0>>, "a1", "function", "rea", "")>>),
      Chunk("", <<ToolCallDelta(<<0>>, "", "", "d", "{\"path\":\"x\"}")>>),
      Chunk("", <<ToolCallDelta(<<1>>, "", "", "grep", "{")>>),
      Chunk("", <<ToolCallDelta(<<1>>, "a2", "", "", "}")>>),
      Chunk("", <<ToolCallDelta(<<>>, "a3", "", "ls", "{}")>>),
      Chunk("!", <<ToolCallDelta(<<0>>, "a4", "", "bash", ""),
                   ToolCallDelta(<<1>>, "a5", "", "edit", "")>>) }

\* Every sequence over S of length at most n.
SeqsUpTo(S, n) == UNION { [1..k -> S] : k \in 0..n }

\* The first iteration of the turn "hi", right after line 197 returned the
\* stream: the window holds the user message and nothing is assembled yet.
InitStream ==
    /\ max_messages = 1
    /\ max_tokens = 100000
    /\ stm_messages = <<UserMsg("hi")>>
    /\ stm_op = "add_message"
    /\ stm_prev = <<>>
    /\ stm_arg = <<UserMsg("hi")>>
    /\ stm_enabled = TRUE
    /\ ltm_enabled = FALSE
    /\ messages = <<UserMsg("hi")>>
    /\ ltm_buffer = <<>>
    /\ pc = "streaming"
    /\ user_input = "hi"
    /\ iteration = 1
    /\ final_assistant_output = ""
    /\ assistant_calls = <<>>
    /\ tool_results = <<>>
    /\ appended = 0
    /\ turn_report = ""
    /\ display \in { d \in Displays : "show_landing_page" \in d }
    /\ stream \in SeqsUpTo(ChunkAlphabet, MaxStreamLen)
    /\ pos = 0
    /\ full_content = ""
    /\ tool_calls = <<>>
    /\ current_tool_call = <<>>
    /\ LtmInit
    /\ context_messages = BuildApiMessages

NextStream == ProcessChunk \/ EndOfStream

SpecStream == InitStream /\ [][NextStream]_vars

-----------------------------------------------------------------------------
(* The window specification with batch appends: any sequence of            *)
(* add_message, add_messages and clear calls.                              *)

\* The longest list passed to add_messages.
MaxBatch == 2

add_messages ==
    /\ \E batch \in SeqsUpTo(MsgAlphabet, MaxBatch) : StmAddMessages(batch)
    /\ UNCHANGED <<ltmVars, streamVars, agentVars>>

\* The window specification with batch appends.
NextBatch == add_message \/ add_messages \/ clear

SpecBatch == Init /\ [][NextBatch]_vars

-----------------------------------------------------------------------------
(* The agent specification: turns of process_user_input and /c resets.     *)

\* An Agent after Agent.__init__ returned.  With ltm_enabled its
\* memory_config is an object that carries ltm_dedup_threshold besides the
\* fields of MemoryConfig (see AgentNew for the MemoryConfig itself).
InitAgent ==
    /\ stm_enabled \in BOOLEAN
    /\ ltm_enabled \in BOOLEAN
    /\ max_messages \in (IF stm_enabled THEN 1..MaxMessagesBound ELSE {1})
    /\ max_tokens = 100000
    /\ stm_messages = <<>>
    /\ stm_op = "init"
    /\ stm_prev = <<>>
    /\ stm_arg = <<>>
    /\ NoStream
    /\ AgentInit
    /\ LtmInit

NextAgent ==
    \/ StartTurn
    \/ Submit
    \/ LoopExit
    \/ ProcessChunk
    \/ EndOfStream
    \/ RouteFinal
    \/ RouteTools
    \/ DispatchTool
    \/ AppendNext
    \/ AfterLoop
    \/ HandleException
    \/ ResetConversation
    \/ MemoryClear
    \/ Quit

SpecAgent == InitAgent /\ [][NextAgent]_vars

\* The agent specification with a provider whose streams leave out ids or
\* repeat them.
NextAgentUnkeyed ==
    \/ StartTurn
    \/ SubmitUnkeyed
    \/ LoopExit
    \/ ProcessChunk
    \/ EndOfStream
    \/ RouteFinal
    \/ RouteTools
    \/ DispatchTool
    \/ AppendNext
    \/ AfterLoop
    \/ HandleException
    \/ ResetConversation
    \/ MemoryClear
    \/ Quit

SpecAgentUnkeyed == InitAgent /\ [][NextAgentUnkeyed]_vars

\* The agent specification with a user who may interrupt a turn or the
\* flush of a command.
NextAgentCancel ==
    \/ NextAgent
    \/ Interrupt
    \/ InterruptCommand

SpecAgentCancel == InitAgent /\ [][NextAgentCancel]_vars

-----------------------------------------------------------------------------
(* The session specification: the commands /c, /memory clear and /q at the *)
(* prompt of a session in which some turns were completed.                 *)

\* The turns completed before the prompt: (user_input, final text) pairs.
SessionTurns ==
    { <<"hi", "Done.">>,
      <<"hi", "\n">>,
      <<"I prefer tabs over spaces. Is that ok?", "Done.">>,
      <<"hi", "We will use tabs from now on.">> }

\* The most turns completed before the prompt.
MaxTurns == 2

\* The files that earlier sessions left at LongTermMemory.file_path: a new
\* one, and one holding a block that the fallback and the batch path wrote.
SessionDocs ==
    { InitialTemplate,
      InitialTemplate \o
          << TextLine(""), Heading(Strftime(0)),
             Bullet("PREFERENCE", "I prefer tabs over spaces."),
             Bullet("", "uses  Pytest for tests") >> }

\* Agent.messages after turns that were each answered by a text at once.
RECURSIVE TurnMessages(_)
TurnMessages(turns) ==
    IF turns = <<>> THEN <<>>
    ELSE <<UserMsg(Head(turns)[1]), AssistantMsg(Head(turns)[2], <<>>)>> \o
         TurnMessages(Tail(turns))

\* ShortTermMemory.messages after add_message was called with each of msgs.
RECURSIVE WindowAfter(_, _, _)
WindowAfter(msgs, maxm, maxt) ==
    IF msgs = <<>> THEN <<>>
    ELSE AddMessageResult(WindowAfter(SubSeq(msgs, 1, Len(msgs) - 1), maxm, maxt),
                          msgs[Len(msgs)], maxm, maxt)

\* Agent._ltm_buffer after those turns: _append_to_ltm for each of them.
RECURSIVE BufferAfter(_)
BufferAfter(turns) ==
    IF turns = <<>> THEN <<>>
    ELSE (IF IsBlank(Head(turns)[2]) THEN <<>> ELSE <<Head(turns)>>) \o
         BufferAfter(Tail(turns))

InitSession ==
    /\ stm_enabled = TRUE
    /\ ltm_enabled \in BOOLEAN
    /\ max_messages = MaxMessagesBound
    /\ max_tokens = 100000
    /\ \E turns \in SeqsUpTo(SessionTurns, MaxTurns) :
          LET msgs == TurnMessages(turns)
          IN  /\ messages = msgs
              /\ stm_messages = WindowAfter(msgs, max_messages, max_tokens)
              /\ stm_op = IF msgs = <<>> THEN "init" ELSE "add_message"
              /\ stm_prev =
                     IF msgs = <<>> THEN <<>>
                     ELSE WindowAfter(SubSeq(msgs, 1, Len(msgs) - 1),
                                      max_messages, max_tokens)
              /\ stm_arg = IF msgs = <<>> THEN <<>> ELSE <<msgs[Len(msgs)]>>
              /\ ltm_buffer = IF ltm_enabled THEN BufferAfter(turns) ELSE <<>>
              /\ user_input = IF turns = <<>> THEN "" ELSE turns[Len(turns)][1]
              /\ final_assistant_output =
                     IF turns = <<>> THEN "" ELSE turns[Len(turns)][2]
              /\ iteration = IF turns = <<>> THEN 0 ELSE 1
    /\ pc = "idle"
    /\ assistant_calls = <<>>
    /\ tool_results = <<>>
    /\ appended = 0
    /\ turn_report = ""
    /\ display \in { d \in Displays :
                        /\ "show_landing_page" \in d
                        /\ messages # <<>> => "stream_text" \in d }
    /\ NoStream
    /\ ltm_doc \in (IF ltm_enabled THEN SessionDocs ELSE {InitialTemplate})
    /\ max_entries = DefaultMaxEntries
    /\ clock = 1
    /\ NoFlush
    /\ NoDirectCall

NextSession ==
    \/ ResetConversation
    \/ MemoryClear
    \/ Quit

SpecSession == InitSession /\ [][NextSession]_vars

\* The program from main(): Agent.__init__ with a MemoryConfig that
\* MemoryConfig() or MemoryConfig.from_env() built and with a display, then
\* AgentRunner.run and the turns of the agent specification.  While
\* pc = "new" the variables of the configuration hold the fields of
\* memory_config.
InitConstruct ==
    /\ stm_enabled \in BOOLEAN
    /\ ltm_enabled \in BOOLEAN
    /\ max_messages \in 1..MaxMessagesBound \cup {DefaultMaxRecentMessages}
    /\ max_tokens = DefaultMaxContextTokens
    /\ stm_messages = <<>>
    /\ stm_op = "init"
    /\ stm_prev = <<>>
    /\ stm_arg = <<>>
    /\ NoStream
    /\ AgentFieldsInit
    /\ pc = "new"
    /\ display \in Displays
    /\ ltm_doc \in SessionDocs
    /\ max_entries = DefaultMaxEntries
    /\ clock = 1
    /\ NoFlush
    /\ NoDirectCall

NextConstruct ==
    \/ AgentNew
    \/ RunStart
    \/ NextAgent

SpecConstruct == InitConstruct /\ [][NextConstruct]_vars

-----------------------------------------------------------------------------
(* The store specification: the methods of one LongTermMemory called one   *)
(* after another, by flush_ltm's two paths and by the /memory commands, on *)
(* a file that earlier sessions left.  Those sessions may have run with a  *)
(* larger KALACODE_LTM_MAX_ENTRIES, so the file may hold more dated blocks *)
(* than max_entries.                                                       *)

\* A store is made only while the file holds fewer dated blocks than this.
MaxBlocks == 3

\* The max_entries the store specification configures.
EntryLimits == {0, 1, 2, DefaultMaxEntries}

\* Replies of the extraction whose items the batch path passes to
\* store_items.
StoreReplies ==
    { [ok |-> TRUE, content |-> <<>>],
      [ok |-> TRUE, content |-> <<ReplyLine(TRUE, "Uses pytest for tests")>>],
      [ok |-> TRUE, content |-> <<ReplyLine(TRUE, "Prefers tabs over spaces")>>],
      [ok |-> TRUE,
       content |-> << ReplyLine(TRUE, "uses  Pytest for tests"),
                      ReplyLine(TRUE, LongReplyLine) >>],
      [ok |-> TRUE,
       content |-> << ReplyLine(TRUE, "Uses pytest for tests"),
                      ReplyLine(TRUE, "uses  Pytest for tests") >>] }

\* The buffered turns the fallback path passes to append_turn.
StoreTurns ==
    { <<"hi", "Done.">>,
      <<"I prefer tabs over spaces. Is that ok?", "Done.">>,
      <<LongSentence, "Done.">> }

\* The number of dated blocks of a file.
BlockCount(doc) == Cardinality(MarkerLines(doc))

\* What a call on the LongTermMemory leaves alone.
StoreFrame ==
    UNCHANGED <<stmVars, streamVars, agentVars, flush_log, flush_outcome,
                max_entries, max_summary_chars, ltm_text, sessions>>

\* self.ltm.store_items(items) of agent.py line 168.
store_items ==
    /\ BlockCount(ltm_doc) < MaxBlocks
    /\ \E reply \in StoreReplies, fault \in FaultPoints, now \in clock..MaxClock :
          LET items == ExtractLtmItemsBatch(reply)
              done  == StoreItems(ltm_doc, items, max_entries, now, fault)
          IN  /\ ltm_doc' = done.doc
              /\ clock' = now
              /\ ltm_call' = LtmCall("store_items", items, fault, ltm_doc,
                                     done.raised, <<>>)
    /\ StoreFrame

\* self.ltm.append_turn(user_text, assistant_text) of agent.py line 171.
append_turn ==
    /\ BlockCount(ltm_doc) < MaxBlocks
    /\ \E turn \in StoreTurns, fault \in FaultPoints, now \in clock..MaxClock :
          LET done == AppendTurn(ltm_doc, turn[1], turn[2], max_entries, now,
                                 fault)
          IN  /\ ltm_doc' = done.doc
              /\ clock' = now
              /\ ltm_call' = LtmCall("append_turn", turn, fault, ltm_doc,
                                     done.raised, <<>>)
    /\ StoreFrame

\* self.agent.ltm.clear() of agent.py line 457.
ltm_clear ==
    /\ \E fault \in {"none", "write"} :
          LET done == LtmClear(ltm_doc, fault)
          IN  /\ ltm_doc' = done.doc
              /\ ltm_call' = LtmCall("clear", <<>>, fault, ltm_doc,
                                     done.raised, <<>>)
    /\ UNCHANGED clock
    /\ StoreFrame

\* self.agent.ltm.read() of agent.py line 450.
ltm_read ==
    /\ \E fault \in {"none", "read"} :
          LET done == LtmRead(ltm_doc, fault)
          IN  /\ ltm_doc' = done.doc
              /\ ltm_call' = LtmCall("read", <<>>, fault, ltm_doc,
                                     done.raised, done.result)
    /\ UNCHANGED clock
    /\ StoreFrame

InitStore ==
    /\ stm_enabled = TRUE
    /\ ltm_enabled = TRUE
    /\ max_messages = MaxMessagesBound
    /\ max_tokens = 100000
    /\ stm_messages = <<>>
    /\ stm_op = "init"
    /\ stm_prev = <<>>
    /\ stm_arg = <<>>
    /\ NoStream
    /\ AgentInit
    /\ "stream_text" \in display
    /\ max_entries \in EntryLimits
    /\ ltm_doc \in SessionDocs \cup
           { InitialTemplate \o
                 << TextLine(""), Heading(Strftime(0)),
                    Bullet("", "Prefers tabs over spaces"),
                    TextLine(""), Heading(Strftime(0)),
                    Bullet("PREFERENCE", "I prefer tabs over spaces."),
                    Bullet("", "uses  Pytest for tests") >> }
    /\ clock = 1
    /\ NoFlush
    /\ NoDirectCall

\* The store on a new file, called by the batch path only.
InitStoreItems ==
    /\ InitStore
    /\ ltm_doc = InitialTemplate

NextStoreItems == store_items

SpecStoreItems == InitStoreItems /\ [][NextStoreItems]_vars

NextStore ==
    \/ store_items
    \/ append_turn
    \/ ltm_clear
    \/ ltm_read

SpecStore == InitStore /\ [][NextStore]_vars

-----------------------------------------------------------------------------
(* The summary specification: get_summary on a file given as characters.   *)

\* The longest file, in characters, of the summary specification.
MaxTextLen == 5

\* The largest max_summary_chars of the summary specification.
MaxSummaryBound == 3

\* self.ltm.get_summary() of agent.py line 100.
get_summary ==
    /\ ltm_call' = LtmCall("get_summary", <<>>, "none", <<>>, FALSE,
                           <<GetSummary(ltm_text, max_summary_chars)>>)
    /\ UNCHANGED <<stmVars, streamVars, agentVars, flush_log, flush_outcome,
                   ltm_doc, max_entries, clock, max_summary_chars, ltm_text,
                   sessions>>

InitSummary ==
    /\ stm_enabled = TRUE
    /\ ltm_enabled = TRUE
    /\ max_messages = MaxMessagesBound
    /\ max_tokens = 100000
    /\ stm_messages = <<>>
    /\ stm_op = "init"
    /\ stm_prev = <<>>
    /\ stm_arg = <<>>
    /\ NoStream
    /\ AgentInit
    /\ "stream_text" \in display
    /\ ltm_doc = InitialTemplate
    /\ max_entries = DefaultMaxEntries
    /\ clock = 1
    /\ NoFlush
    /\ max_summary_chars \in 0..MaxSummaryBound
    /\ ltm_text \in SeqsUpTo({"a", "b", " ", "\n"}, MaxTextLen)
    /\ ltm_call = LtmCall("none", <<>>, "none", <<>>, FALSE, <<>>)
    /\ sessions = <<>>

NextSummary == get_summary

SpecSummary == InitSummary /\ [][NextSummary]_vars

-----------------------------------------------------------------------------
(* The shared-file specification: two processes, each with its own         *)
(* LongTermMemory on the same file_path, each making one store_items call. *)
(* The code takes no lock, so the file operations of the two calls         *)
(* interleave freely.  The file is followed byte by byte in ltm_text:      *)
(* Path.write_text opens the file, which truncates it, and then writes its *)
(* text from offset 0 of its own descriptor, so that bytes which the other *)
(* process wrote beyond the end of that text stay in the file.  A read    *)
(* that falls into a write sees the write partly done, and Path.read_text  *)
(* reads until a read returns nothing, so a text read may hold characters  *)
(* of more than one state of the file.                                     *)

\* The processes that share the file.
SessionIds == {1, 2}

\* The item lists the processes store.
SharedBatches ==
    { <<"Uses pytest for tests">>,
      <<"uses  Pytest for tests">>,
      <<"Prefers tabs over spaces">> }

\* list(text): the characters of a text, for the texts of the shared-file
\* specification.
Chars(text) ==
    CASE text = "" -> <<>>
      [] text = "# Kalacode Long-Term Memory" ->
            <<"#", " ", "K", "a", "l", "a", "c", "o", "d", "e", " ", "L",
              "o", "n", "g", "-", "T", "e", "r", "m", " ", "M", "e", "m",
              "o", "r", "y">>
      [] text = "This file stores persistent memory across sessions." ->
            <<"T", "h", "i", "s", " ", "f", "i", "l", "e", " ", "s", "t",
              "o", "r", "e", "s", " ", "p", "e", "r", "s", "i", "s", "t",
              "e", "n", "t", " ", "m", "e", "m", "o", "r", "y", " ", "a",
              "c", "r", "o", "s", "s", " ", "s", "e", "s", "s", "i", "o",
              "n", "s", ".">>
      [] text = "Only durable facts, preferences, and decisions are kept." ->
            <<"O", "n", "l", "y", " ", "d", "u", "r", "a", "b", "l", "e",
              " ", "f", "a", "c", "t", "s", ",", " ", "p", "r", "e", "f",
              "e", "r", "e", "n", "c", "e", "s", ",", " ", "a", "n", "d",
              " ", "d", "e", "c", "i", "s", "i", "o", "n", "s", " ", "a",
              "r", "e", " ", "k", "e", "p", "t", ".">>
      [] text = "## Notes" ->
            <<"#", "#", " ", "N", "o", "t", "e", "s">>
      [] text = "Uses pytest for tests" ->
            <<"U", "s", "e", "s", " ", "p", "y", "t", "e", "s", "t", " ",
              "f", "o", "r", " ", "t", "e", "s", "t", "s">>
      [] text = "uses  Pytest for tests" ->
            <<"u", "s", "e", "s", " ", " ", "P", "y", "t", "e", "s", "t",
              " ", "f", "o", "r", " ", "t", "e", "s", "t", "s">>
      [] text = "Prefers tabs over spaces" ->
            <<"P", "r", "e", "f", "e", "r", "s", " ", "t", "a", "b", "s",
              " ", "o", "v", "e", "r", " ", "s", "p", "a", "c", "e", "s">>
      [] text = "I prefer tabs over spaces." ->
            <<"I", " ", "p", "r", "e", "f", "e", "r", " ", "t", "a", "b",
              "s", " ", "o", "v", "e", "r", " ", "s", "p", "a", "c", "e",
              "s", ".">>
      [] text = "FACT" ->
            <<"F", "A", "C", "T">>
      [] text = "PREFERENCE" ->
            <<"P", "R", "E", "F", "E", "R", "E", "N", "C", "E">>
      [] text = "DECISION" ->
            <<"D", "E", "C", "I", "S", "I", "O", "N">>
      [] text = "2026-01-01 00:00:00Z" ->
            <<"2", "0", "2", "6", "-", "0", "1", "-", "0", "1", " ", "0",
              "0", ":", "0", "0", ":", "0", "0", "Z">>
      [] text = "2026-01-01 00:00:01Z" ->
            <<"2", "0", "2", "6", "-", "0", "1", "-", "0", "1", " ", "0",
              "0", ":", "0", "0", ":", "0", "1", "Z">>
      [] text = "2026-01-01 00:00:02Z" ->
            <<"2", "0", "2", "6", "-", "0", "1", "-", "0", "1", " ", "0",
              "0", ":", "0", "0", ":", "0", "2", "Z">>
      [] text = "2026-01-01 00:00:03Z" ->
            <<"2", "0", "2", "6", "-", "0", "1", "-", "0", "1", " ", "0",
              "0", ":", "0", "0", ":", "0", "3", "Z">>
      [] text = "2026-01-01 00:00:04Z" ->
            <<"2", "0", "2", "6", "-", "0", "1", "-", "0", "1", " ", "0",
              "0", ":", "0", "0", ":", "0", "4", "Z">>
      [] text = "2026-01-01 00:00:05Z" ->
            <<"2", "0", "2", "6", "-", "0", "1", "-", "0", "1", " ", "0",
              "0", ":", "0", "0", ":", "0", "5", "Z">>
      [] text = "2026-01-01 00:00:06Z" ->
            <<"2", "0", "2", "6", "-", "0", "1", "-", "0", "1", " ", "0",
              "0", ":", "0", "0", ":", "0", "6", "Z">>
      [] text = "2026-01-01 00:00:07Z" ->
            <<"2", "0", "2", "6", "-", "0", "1", "-", "0", "1", " ", "0",
              "0", ":", "0", "0", ":", "0", "7", "Z">>
      [] text = "2026-01-01 00:00:08Z" ->
            <<"2", "0", "2", "6", "-", "0", "1", "-", "0", "1", " ", "0",
              "0", ":", "0", "0", ":", "0", "8", "Z">>
      [] text = "2026-01-01 00:00:09Z" ->
            <<"2", "0", "2", "6", "-", "0", "1", "-", "0", "1", " ", "0",
              "0", ":", "0", "0", ":", "0", "9", "Z">>

\* The characters of a file given by its lines.
RECURSIVE RenderChars(_)
RenderChars(doc) ==
    LET LineChars(line) ==
            CASE line.kind = "text"    -> Chars(line.text)
              [] line.kind = "heading" ->
                    <<"#", "#", "#", " ">> \o Chars(line.text)
              [] line.kind = "bullet"  ->
                    (IF line.tag = "" THEN <<"-", " ">>
                     ELSE <<"-", " ", "[">> \o Chars(line.tag) \o <<"]", " ">>)
                        \o Chars(line.text)
    IN  IF doc = <<>> THEN <<>>
        ELSE LineChars(Head(doc)) \o <<"\n">> \o RenderChars(Tail(doc))

\* LongTermMemory._existing_item_texts, on the characters read() returned:
\* the group (.+) of the lines that match
\* ^- \[(FACT|PREFERENCE|DECISION)\] (.+)$, then of those that match
\* ^- (?!\[(?:FACT|PREFERENCE|DECISION)\])(.+)$, each normalized.  Under
\* re.MULTILINE the lines are the parts between the line breaks.
ExistingItemTextsOfText(text) ==
    LET RECURSIVE Join(_)
        Join(chars) ==
            IF chars = <<>> THEN "" ELSE Head(chars) \o Join(Tail(chars))
        RECURSIVE SplitLines(_)
        SplitLines(rest) ==
            IF rest = <<>> THEN <<>>
            ELSE LET breaks == { k \in DOMAIN rest : rest[k] = "\n" }
                     first  == IF breaks = {} THEN Len(rest) + 1
                               ELSE CHOOSE k \in breaks :
                                        \A j \in breaks : k <= j
                 IN  <<SubSeq(rest, 1, first - 1)>> \o
                     SplitLines(SubSeq(rest, first + 1, Len(rest)))
        HasPrefix(line, prefix) ==
            Len(line) >= Len(prefix) /\ SubSeq(line, 1, Len(prefix)) = prefix
        Tags == {"FACT", "PREFERENCE", "DECISION"}
        TagPrefix(tag) == <<"-", " ", "[">> \o Chars(tag) \o <<"]">>
        IsTaggedLine(line) ==
            \E tag \in Tags :
                /\ HasPrefix(line, TagPrefix(tag) \o <<" ">>)
                /\ Len(line) > Len(TagPrefix(tag)) + 1
        IsPlainLine(line) ==
            /\ HasPrefix(line, <<"-", " ">>)
            /\ Len(line) > 2
            /\ \A tag \in Tags : ~HasPrefix(line, TagPrefix(tag))
        TaggedText(line) ==
            LET tag == CHOOSE t \in Tags :
                           HasPrefix(line, TagPrefix(t) \o <<" ">>)
            IN  SubSeq(line, Len(TagPrefix(tag)) + 2, Len(line))
        lines  == SplitLines(text)
        tagged == SelectSeq(lines, IsTaggedLine)
        plain  == SelectSeq(lines, IsPlainLine)
    IN  [k \in DOMAIN tagged |-> Normalize(Join(TaggedText(tagged[k])))] \o
        [k \in DOMAIN plain |->
            Normalize(Join(SubSeq(plain[k], 3, Len(plain[k]))))]

\* The offsets at which "\n### " starts in a text: text.split("\n### ")
\* has one part more than there are offsets.
MarkerOffsets(text) ==
    { k \in DOMAIN text :
        /\ k + 4 <= Len(text)
        /\ SubSeq(text, k, k + 4) = <<"\n", "#", "#", "#", " ">> }

\* _trim_entries, lines 270-273: header + the last max_entries notes, each
\* after its marker.  notes[-0:] is the whole list.
TrimmedText(text, limit) ==
    LET offsets == MarkerOffsets(text)
        Nth(n)  == CHOOSE k \in offsets :
                       Cardinality({ j \in offsets : j <= k }) = n
        first   == IF limit = 0 THEN 1 ELSE Cardinality(offsets) - limit + 1
    IN  SubSeq(text, 1, Nth(1) - 1) \o SubSeq(text, Nth(first), Len(text))

\* The file after data was written at offset 0 of a descriptor that was
\* opened before the file got its present content: what lies beyond the
\* data stays.
WriteAtStart(file, data) ==
    data \o SubSeq(file, Len(data) + 1, Len(file))

\* What a step of a store_items call on the shared file leaves alone.
SharedFrame ==
    UNCHANGED <<stmVars, streamVars, agentVars, flush_log, flush_outcome,
                max_entries, max_summary_chars, ltm_doc, ltm_call>>

\* Another process is inside a write of the file: the file system lets no
\* other write or truncation of the file happen before it is through.
Writing(s) ==
    \E o \in SessionIds \ {s} : sessions[o].at \in {"writing", "trim_writing"}

\* What one os.read of the read_text of process s can return.  read_text
\* reads on from the characters it has, up to the length the file has now;
\* the first read takes no more than the length the file had when it was
\* opened, and one.  No lock is held: while the write of another process
\* copies its data into the file, from the start, the read and the copy
\* pass each other at most once: the characters read are the new ones up to
\* some position and then those of the file, or those of the file up to
\* some position and then the new ones.
Chunks(s) ==
    LET got   == Len(sessions[s].text)
        cap   == sessions[s].cap
        upto  == IF cap = 0 \/ got >= cap \/ Len(ltm_text) < cap
                 THEN Len(ltm_text) ELSE cap
        data  == IF Writing(s)
                 THEN sessions[CHOOSE o \in SessionIds \ {s} :
                                   sessions[o].at \in
                                       {"writing", "trim_writing"}].rest
                 ELSE <<>>
        ends  == IF Len(data) < upto THEN Len(data) ELSE upto
        cuts  == {got} \cup
                 { i \in (got + 1)..ends : data[i] # ltm_text[i] }
    IN  { [i \in 1..(upto - got) |->
              IF j < got + i /\ got + i <= k
              THEN data[got + i] ELSE ltm_text[got + i]] :
          <<j, k>> \in { c \in cuts \X cuts : c[1] = got \/ c[2] = ends } }

\* store_items, line 74: a call with items starts.
SharedBegin(s) ==
    /\ sessions[s].at = "idle"
    /\ \E items \in SharedBatches :
          sessions' = [sessions EXCEPT ![s].at = "begun", ![s].items = items]
    /\ UNCHANGED <<ltm_text, clock>>
    /\ SharedFrame

\* Lines 77, 90 and 264: read_text opens the file and takes its length.
SharedStat(s) ==
    /\ sessions[s].at \in {"begun", "deduped", "written"}
    /\ sessions' =
           [sessions EXCEPT
               ![s].at = CASE @ = "begun" -> "scanning"
                           [] @ = "deduped" -> "reading"
                           [] @ = "written" -> "trim_reading",
               ![s].cap = IF ltm_text = <<>> THEN 0 ELSE Len(ltm_text) + 1]
    /\ UNCHANGED <<ltm_text, clock>>
    /\ SharedFrame

\* store_items, lines 77-89.  One os.read of the read_text of
\* _existing_item_texts; when a read returns nothing, the items are
\* filtered against the text read and the entry is built.
SharedScan(s) ==
    /\ sessions[s].at = "scanning"
    /\ \E chunk \in Chunks(s) :
          IF chunk # <<>>
          THEN /\ sessions' = [sessions EXCEPT ![s].text = @ \o chunk]
               /\ UNCHANGED clock
          ELSE \E now \in clock..MaxClock :
                  LET existing_texts ==
                          ExistingItemTextsOfText(sessions[s].text)
                      unique_items ==
                          SelectSeq(sessions[s].items,
                                    LAMBDA item :
                                        ~IsFuzzyDuplicate(item, existing_texts))
                      entry == <<TextLine(""), Heading(Strftime(now))>> \o
                               [k \in DOMAIN unique_items |->
                                   Bullet("", unique_items[k])]
                  IN  /\ sessions' =
                             [sessions EXCEPT
                                 ![s].at = IF unique_items = <<>>
                                           THEN "done" ELSE "deduped",
                                 ![s].entry = IF unique_items = <<>>
                                              THEN <<>> ELSE RenderChars(entry),
                                 ![s].text = <<>>,
                                 ![s].cap = 0]
                      /\ clock' = now
    /\ UNCHANGED ltm_text
    /\ SharedFrame

\* Line 90: one os.read of self.read().
SharedRead(s) ==
    /\ sessions[s].at = "reading"
    /\ \E chunk \in Chunks(s) :
          sessions' =
              IF chunk # <<>>
              THEN [sessions EXCEPT ![s].text = @ \o chunk]
              ELSE [sessions EXCEPT ![s].at = "read", ![s].cap = 0]
    /\ UNCHANGED <<ltm_text, clock>>
    /\ SharedFrame

\* Line 90: write_text opens the file for writing, which empties it.
SharedOpen(s) ==
    /\ sessions[s].at = "read"
    /\ ~Writing(s)
    /\ ltm_text' = <<>>
    /\ sessions' = [sessions EXCEPT ![s].at = "opened"]
    /\ UNCHANGED clock
    /\ SharedFrame

\* Line 90: write_text starts to write the text read followed by the entry,
\* from the start of the file.
SharedWrite(s) ==
    /\ sessions[s].at = "opened"
    /\ ~Writing(s)
    /\ sessions' =
           [sessions EXCEPT
               ![s].at = "writing",
               ![s].rest = sessions[s].text \o sessions[s].entry,
               ![s].text = <<>>]
    /\ UNCHANGED <<ltm_text, clock>>
    /\ SharedFrame

\* The write of line 90 or of line 274 is through: its data is in the
\* file, and the file has grown where the data is longer.
SharedWritten(s) ==
    /\ sessions[s].at \in {"writing", "trim_writing"}
    /\ ltm_text' = WriteAtStart(ltm_text, sessions[s].rest)
    /\ sessions' =
           [sessions EXCEPT
               ![s].at = IF @ = "writing" THEN "written" ELSE "done",
               ![s].rest = <<>>]
    /\ UNCHANGED clock
    /\ SharedFrame

\* _trim_entries, lines 264-268.  One os.read of self.read(); when a read
\* returns nothing, the call returns if the text read holds at most
\* max_entries blocks.
SharedTrimRead(s) ==
    /\ sessions[s].at = "trim_reading"
    /\ \E chunk \in Chunks(s) :
          sessions' =
              IF chunk # <<>>
              THEN [sessions EXCEPT ![s].text = @ \o chunk]
              ELSE [sessions EXCEPT
                       ![s].at =
                           IF Cardinality(MarkerOffsets(sessions[s].text))
                                  <= max_entries
                           THEN "done" ELSE "trimming",
                       ![s].cap = 0]
    /\ UNCHANGED <<ltm_text, clock>>
    /\ SharedFrame

\* _trim_entries, line 274: write_text opens the file.
SharedTrimOpen(s) ==
    /\ sessions[s].at = "trimming"
    /\ ~Writing(s)
    /\ ltm_text' = <<>>
    /\ sessions' = [sessions EXCEPT ![s].at = "trim_opened"]
    /\ UNCHANGED clock
    /\ SharedFrame

\* _trim_entries, lines 270-274: write_text starts to write the header and
\* the last max_entries blocks of the text read.
SharedTrimWrite(s) ==
    /\ sessions[s].at = "trim_opened"
    /\ ~Writing(s)
    /\ sessions' =
           [sessions EXCEPT
               ![s].at = "trim_writing",
               ![s].rest = TrimmedText(sessions[s].text, max_entries)]
    /\ UNCHANGED <<ltm_text, clock>>
    /\ SharedFrame

\* ltm_doc gives the lines of the file the processes find; from then on the
\* file is ltm_text.
InitShared ==
    /\ stm_enabled = TRUE
    /\ ltm_enabled = TRUE
    /\ max_messages = MaxMessagesBound
    /\ max_tokens = 100000
    /\ stm_messages = <<>>
    /\ stm_op = "init"
    /\ stm_prev = <<>>
    /\ stm_arg = <<>>
    /\ NoStream
    /\ AgentInit
    /\ "stream_text" \in display
    /\ max_entries \in {1, DefaultMaxEntries}
    /\ ltm_doc \in SessionDocs
    /\ clock = 1
    /\ NoFlush
    /\ max_summary_chars = DefaultMaxSummaryChars
    /\ ltm_text = RenderChars(ltm_doc)
    /\ ltm_call = LtmCall("none", <<>>, "none", <<>>, FALSE, <<>>)
    /\ sessions = [s \in SessionIds |->
                      [at |-> "idle", items |-> <<>>, entry |-> <<>>,
                       text |-> <<>>, rest |-> <<>>, cap |-> 0]]

NextShared ==
    \E s \in SessionIds :
        \/ SharedBegin(s)
        \/ SharedStat(s)
        \/ SharedScan(s)
        \/ SharedRead(s)
        \/ SharedOpen(s)
        \/ SharedWrite(s)
        \/ SharedWritten(s)
        \/ SharedTrimRead(s)
        \/ SharedTrimOpen(s)
        \/ SharedTrimWrite(s)

SpecShared == InitShared /\ [][NextShared]_vars

-----------------------------------------------------------------------------
(* Properties of the context window                                        *)

\* The ids of every entry of a tool_calls list, truthy or not.
InvocationIds(calls) == { calls[k].id : k \in DOMAIN calls }

\* The last n elements of seq, for 0 <= n <= Len(seq).
Suffix(seq, n) == [i \in 1..n |-> seq[Len(seq) - n + i]]

\* The tool message at position j answers an invocation that an earlier
\* assistant message of seq declared and that no tool message in between
\* has already answered.
Answers(seq, j) ==
    /\ seq[j].tool_call_id # ""
    /\ \E i \in 1..(j - 1) :
          /\ seq[i].role = "assistant"
          /\ seq[j].tool_call_id \in InvocationIds(seq[i].tool_calls)
          /\ \A l \in (i + 1)..(j - 1) :
                ~(seq[l].role = "tool" /\ seq[l].tool_call_id = seq[j].tool_call_id)

\* seq without its tool messages that answer nothing, order kept.
RECURSIVE KeepLinkedUpTo(_, _)
KeepLinkedUpTo(seq, n) ==
    IF n = 0 THEN <<>>
    ELSE KeepLinkedUpTo(seq, n - 1)
         \o (IF seq[n].role # "tool" \/ Answers(seq, n) THEN <<seq[n]>> ELSE <<>>)

KeepLinked(seq) == KeepLinkedUpTo(seq, Len(seq))

\* The window with the appended message, before any eviction.
Appended == Append(stm_prev, stm_arg[1])

\* C1: after any sequence of add_message calls, every retained message with
\* role tool has a tool_call_id that equals an invocation id of some
\* assistant message located earlier in the window.
C1_ToolMessagesAreLinked ==
    \A j \in 1..Len(stm_messages) :
        stm_messages[j].role = "tool" =>
            \E i \in 1..(j - 1) :
                /\ stm_messages[i].role = "assistant"
                /\ stm_messages[j].tool_call_id \in InvocationIds(stm_messages[i].tool_calls)

\* C1 witness: an append on a full window evicted from the head and a tool
\* message is still retained.
C1_Witness ==
    /\ stm_op = "add_message"
    /\ Len(stm_prev) = max_messages
    /\ \E j \in 1..Len(stm_messages) : stm_messages[j].role = "tool"

\* C2: after any sequence of add_message calls, for every max_messages >= 1
\* and every max_tokens, the window holds at most max_messages messages.
C2_LengthAtMostMaxMessages == Len(stm_messages) <= max_messages

\* C2 witness: an append on a full window of at least two messages leaves
\* the window full.
C2_Witness ==
    /\ stm_op = "add_message"
    /\ max_messages >= 2
    /\ Len(stm_prev) = max_messages
    /\ Len(stm_messages) = max_messages

\* C3: when an append makes the count exceed max_messages, the count limit
\* removes exactly the oldest count - max_messages messages and keeps the
\* rest in order; and when that retained suffix is within the token budget,
\* the window after the append is that suffix with every message that is
\* not a tool message, and every tool message that answers an invocation
\* declared earlier inside the suffix, still in place (only tool messages
\* that answer nothing in the suffix are absent).
C3_CountEvictionOldestFirst ==
    (stm_op = "add_message" /\ Len(stm_prev) + 1 > max_messages) =>
        LET suffix == Suffix(Appended, max_messages)
        IN  /\ CountTruncate(Appended, max_messages) = suffix
            /\ count_messages(suffix) <= max_tokens =>
                   stm_messages = KeepLinked(suffix)

\* C3 witness: max_messages = 3, window user, assistant(a1), tool(a1); a
\* 4th user message drops only the first user message.
C3_Witness ==
    LET call == AssistantMsg("", <<ToolCall("a1", "read", "{\"path\": \"x\"}")>>)
    IN  /\ stm_op = "add_message"
        /\ max_messages = 3
        /\ stm_prev = <<UserMsg("hi"), call, ToolMsg("a1", "ok")>>
        /\ stm_arg = <<UserMsg("a longer question")>>
        /\ stm_messages = <<call, ToolMsg("a1", "ok"), UserMsg("a longer question")>>

\* C4 as stated: after any append of any message, of any role, the window
\* holds at least one message.
C4_NeverEmptyAfterAppend ==
    stm_op = "add_message" => Len(stm_messages) >= 1

\* C4 as amended: after any append of a message whose role is not tool, the
\* window holds at least one message.
C4_NeverEmptyAfterNonToolAppend ==
    (stm_op = "add_message" /\ stm_arg[1].role # "tool") =>
        Len(stm_messages) >= 1

\* C4 witness: a non-tool message that alone exceeds max_tokens was appended
\* to a non-empty window and is the one message kept.
C4_Witness ==
    /\ stm_op = "add_message"
    /\ stm_arg[1].role # "tool"
    /\ Len(stm_prev) >= 1
    /\ count_message(stm_arg[1]) > max_tokens
    /\ stm_messages = stm_arg

\* C5: after any append, the estimated total token count of the window is
\* at most max_tokens, or the window holds at most one message.
C5_WithinTokenBudgetOrSingle ==
    stm_op = "add_message" =>
        \/ count_messages(stm_messages) <= max_tokens
        \/ Len(stm_messages) <= 1

\* C5 witness: an append within the count limit overflowed the token budget
\* and the token loop evicted down to two or more messages that fit.
C5_Witness ==
    /\ stm_op = "add_message"
    /\ Len(stm_prev) + 1 <= max_messages
    /\ count_messages(Appended) > max_tokens
    /\ Len(stm_messages) >= 2
    /\ count_messages(stm_messages) <= max_tokens

-----------------------------------------------------------------------------
(* Properties of the stream assembly                                       *)

\* The tool call deltas of a stream, in arrival order.
RECURSIVE StreamDeltas(_)
StreamDeltas(strm) ==
    IF strm = <<>> THEN <<>>
    ELSE (IF Head(strm).choices = <<>> THEN <<>> ELSE Head(strm).choices[1].tool_calls)
         \o StreamDeltas(Tail(strm))

HasIndex(d) == d.index # <<>>

\* The deltas of the whole stream that carry a positional index.
IndexedDeltas == SelectSeq(StreamDeltas(stream), HasIndex)

\* The deltas the for loop has consumed so far.
ConsumedDeltas == StreamDeltas(SubSeq(stream, 1, pos))

NonDecreasing(ds) ==
    \A i, j \in DOMAIN ds : i < j => ds[i].index[1] <= ds[j].index[1]

\* The name (arguments) deltas of the deltas carrying index idx, joined in
\* arrival order.
RECURSIVE JoinNames(_, _)
JoinNames(ds, idx) ==
    IF ds = <<>> THEN ""
    ELSE (IF Head(ds).index = <<idx>> THEN Head(ds).name ELSE "")
         \o JoinNames(Tail(ds), idx)

RECURSIVE JoinArguments(_, _)
JoinArguments(ds, idx) ==
    IF ds = <<>> THEN ""
    ELSE (IF Head(ds).index = <<idx>> THEN Head(ds).arguments ELSE "")
         \o JoinArguments(Tail(ds), idx)

\* The positions of ds that start a maximal run of consecutive equal indices.
RunStarts(ds) == { k \in DOMAIN ds : k = 1 \/ ds[k].index # ds[k - 1].index }

\* The number of the run position k of ds lies in.
RunOf(ds, k) == Cardinality({ s \in RunStarts(ds) : s <= k })

\* The first non-empty id delivered by a delta of run n of ds, "" if none.
FirstIdOfRun(ds, n) ==
    LET ks == { k \in DOMAIN ds : RunOf(ds, k) = n /\ ds[k].id # "" }
    IN  IF ks = {} THEN ""
        ELSE ds[CHOOSE k \in ks : \A l \in ks : k <= l].id

\* C6: for every stream whose tool call indices are non-decreasing, the
\* assembly yields one request per distinct index, and each request's name
\* and arguments are the concatenation, in arrival order, of the name and
\* arguments deltas of all the deltas carrying that index.
C6_AssemblyConcatenatesPerIndex ==
    (pc = "assembled" /\ NonDecreasing(IndexedDeltas)) =>
        LET ds      == IndexedDeltas
            indices == { ds[k].index[1] : k \in DOMAIN ds }
        IN  /\ Len(tool_calls) = Cardinality(indices)
            /\ \A idx \in indices :
                  \E n \in DOMAIN tool_calls :
                      /\ tool_calls[n].index = idx
                      /\ tool_calls[n].name = JoinNames(ds, idx)
                      /\ tool_calls[n].arguments = JoinArguments(ds, idx)

\* C6 witness: name deltas "rea" then "d" with the arguments delta
\* {"path":"x"} for index 0 were assembled into one request named "read".
C6_Witness ==
    /\ pc = "assembled"
    /\ stream = << Chunk("", <<ToolCallDelta(<<0>>, "a1", "function", "rea", "")>>),
                   Chunk("", <<ToolCallDelta(<<0>>, "", "", "d", "{\"path\":\"x\"}")>>) >>
    /\ tool_calls = << [index |-> 0, id |-> "a1", type |-> "function",
                        name |-> "read", arguments |-> "{\"path\":\"x\"}"] >>

\* C7: if a tool call delta arrives with no positional index while no
\* request is open, the assembly fails: the turn is over and has reported an
\* error.
C7_UnattributableDeltaFails ==
    (ConsumedDeltas # <<>> /\ ~HasIndex(ConsumedDeltas[1])) =>
        (pc = "idle" /\ turn_report # "")

\* C8: the finished requests are the maximal runs of consecutive equal
\* indices of the stream, in the order the runs started (an index that
\* recurs after a different one yields a separate request), and a request,
\* once closed, is never changed by a later fragment.
C8_OneRequestPerRun ==
    /\ [](pc = "assembled" =>
            LET ds == IndexedDeltas
            IN  /\ Len(tool_calls) = Cardinality(RunStarts(ds))
                /\ \A s \in RunStarts(ds) :
                      tool_calls[RunOf(ds, s)].index = ds[s].index[1])
    /\ [][pc = "streaming" =>
            \A n \in DOMAIN tool_calls :
                n \in DOMAIN tool_calls' /\ tool_calls'[n] = tool_calls[n]]_vars

\* C8 witness: index 0 recurred after index 1 and three requests were
\* assembled, the first and the third with index 0.
C8_Witness ==
    /\ pc = "assembled"
    /\ Len(IndexedDeltas) = 3
    /\ Len(tool_calls) = 3
    /\ tool_calls[1].index = 0
    /\ tool_calls[2].index = 1
    /\ tool_calls[3].index = 0

\* C9: the id of an assembled request is the id of the first fragment of its
\* run when that fragment has one, and otherwise the id a later fragment of
\* the run delivers.
C9_IdCapturedOrDeferred ==
    pc = "assembled" =>
        LET ds == IndexedDeltas
        IN  \A n \in DOMAIN tool_calls :
                FirstIdOfRun(ds, n) # "" => tool_calls[n].id = FirstIdOfRun(ds, n)

-----------------------------------------------------------------------------
(* Properties of the agentic loop                                          *)

\* Agent.messages ends with one assistant message carrying the n assembled
\* tool calls, followed by n tool messages, the k-th keyed by the id of the
\* k-th call, the last of them being the last message passed to add_message.
EndsWithCallsAndResults ==
    LET n    == Len(tool_calls)
        base == Len(messages) - (n + 1)
    IN  /\ base >= 0
        /\ messages[base + 1].role = "assistant"
        /\ Len(messages[base + 1].tool_calls) = n
        /\ \A k \in 1..n :
              /\ messages[base + 1].tool_calls[k].id = tool_calls[k].id
              /\ messages[base + 1].tool_calls[k].name = tool_calls[k].name
              /\ messages[base + 1 + k].role = "tool"
              /\ messages[base + 1 + k].tool_call_id = tool_calls[k].id
        /\ stm_arg = <<messages[Len(messages)]>>

\* C10: when an iteration that assembled n >= 1 requests is over (the loop
\* is back at its head or left, or the turn was given up), the controller
\* has appended one assistant message carrying all n invocations followed by
\* exactly n tool messages in request order, the k-th keyed by the k-th
\* request's id; the next submission is built only from the loop head.
C10_CallsThenResultsAppended ==
    (stm_enabled /\ pc \in {"loop_head", "after_loop", "raised"} /\ tool_calls # <<>>) =>
        EndsWithCallsAndResults

-----------------------------------------------------------------------------
(* Properties of the turn loop                                             *)

\* The turn is over: the REPL is at its prompt, or the session has ended.
TurnOver == pc \in {"idle", "exited", "crashed"}

\* C11: when the stream of the first iteration of a turn assembles no tool
\* call, that step appends exactly one assistant message without tool_calls
\* carrying the accumulated text (to Agent.messages and to the window), the
\* text becomes final_assistant_output, and the loop is left: the turn ends
\* without another submission, with the user message and that assistant
\* message as the only messages of the turn.
C11_TextAnswerEndsTurn ==
    /\ [][(pc = "assembled" /\ tool_calls = <<>> /\ iteration = 1) =>
            /\ messages' = Append(messages, AssistantMsg(full_content, <<>>))
            /\ final_assistant_output' = full_content
            /\ pc' = "after_loop"
            /\ stm_enabled =>
                  /\ stm_op' = "add_message"
                  /\ stm_prev' = stm_messages
                  /\ stm_arg' = <<AssistantMsg(full_content, <<>>)>>]_vars
    /\ [][(pc = "after_loop" /\ iteration = 1) =>
            (pc' = "idle" /\ iteration' = 1 /\ messages' = messages)]_vars
    /\ []((pc = "after_loop" /\ iteration = 1) =>
            /\ Len(messages) >= 2
            /\ messages[Len(messages) - 1] = UserMsg(user_input)
            /\ messages[Len(messages)] =
                   AssistantMsg(final_assistant_output, <<>>))

\* A first iteration answered "Done." has appended the text and left the
\* loop.
C11_Witness ==
    /\ pc = "after_loop"
    /\ iteration = 1
    /\ final_assistant_output = "Done."
    /\ stm_enabled
    /\ stm_messages[Len(stm_messages)] = AssistantMsg("Done.", <<>>)

\* The steps of a running turn: the code runs on, every stream ends and
\* every tool returns.
TurnSteps ==
    \/ Submit
    \/ LoopExit
    \/ ProcessChunk
    \/ EndOfStream
    \/ RouteFinal
    \/ RouteTools
    \/ DispatchTool
    \/ AppendNext
    \/ AfterLoop
    \/ HandleException

\* The agent specification with a turn that keeps running once started.
SpecAgentFair == SpecAgent /\ WF_vars(TurnSteps)

\* C12: iteration counts the submissions of the turn (a stream is requested
\* only by a step that increments it), it never exceeds max_iterations, and
\* every turn that has started ends.
C12_TurnEndsWithinCeiling ==
    /\ [](iteration <= max_iterations)
    /\ [][(pc # "streaming" /\ pc' = "streaming") =>
            (iteration' = iteration + 1 /\ iteration < max_iterations)]_vars
    /\ [][iteration' # iteration =>
            (pc' = "streaming" \/ (pc = "idle" /\ iteration' = 0))]_vars
    /\ (~TurnOver) ~> TurnOver

\* The loop was left by its ceiling: max_iterations submissions, each one
\* answered with tool calls.
C12_Witness ==
    /\ pc = "after_loop"
    /\ iteration = max_iterations
    /\ tool_calls # <<>>
    /\ Len(messages) >= 1 + 3 * max_iterations

\* C13: when the loop is left after max_iterations iterations whose last one
\* assembled tool calls (so none ended with zero requests), the turn reports
\* "Max iterations reached" and Agent._ltm_buffer is left as it was.
C13_CeilingIsReportedAndNotBuffered ==
    /\ []((pc = "after_loop" /\ tool_calls # <<>>) => iteration = max_iterations)
    /\ [][(pc = "after_loop" /\ tool_calls # <<>>) =>
            /\ turn_report' = "Max iterations reached"
            /\ ltm_buffer' = ltm_buffer
            /\ pc' = "idle"]_vars

\* A turn of max_iterations tool iterations has ended with the report, with
\* long-term memory enabled.
C13_Witness ==
    /\ pc = "idle"
    /\ ltm_enabled
    /\ iteration = max_iterations
    /\ turn_report = "Max iterations reached"
    /\ messages # <<>>
    /\ messages[Len(messages)].role = "tool"

\* C14: when a turn completes normally (its last iteration, the k-th with
\* 1 <= k <= max_iterations, assembled no tool call) with long-term memory
\* enabled, the pair (user text, final assistant text) is appended to
\* Agent._ltm_buffer and "Max iterations reached" is not reported.  Stated
\* for a final text that is not blank, which is the only kind
\* _append_to_ltm buffers.
C14_NormalCompletionIsBuffered ==
    [][(/\ pc = "after_loop"
        /\ tool_calls = <<>>
        /\ ltm_enabled
        /\ ~IsBlank(final_assistant_output)) =>
            /\ ltm_buffer' =
                   Append(ltm_buffer, <<user_input, final_assistant_output>>)
            /\ turn_report' # "Max iterations reached"]_vars

\* C15: no step of process_user_input, from the user message to its return
\* or its exception, changes the file of the long-term memory; the file
\* changes only in a step of flush_ltm or of LongTermMemory.clear.
C15_TurnLeavesDocumentUnchanged ==
    /\ [][(pc # "idle" \/ ~(pc' \in {"idle", "exited", "crashed"})) =>
            ltm_doc' = ltm_doc]_vars
    /\ [][ltm_doc' # ltm_doc =>
            /\ pc = "idle"
            /\ \/ flush_outcome' \in {"returned", "raised"}
               \/ (flush_outcome' = "none" /\ ltm_doc' = InitialTemplate)]_vars

\* A flush wrote a block, and a later turn was completed and buffered with
\* the file as the flush left it.
C15_Witness ==
    /\ pc = "idle"
    /\ ltm_enabled
    /\ flush_outcome = "none"
    /\ ltm_buffer = << <<"hi", "Done.">> >>
    /\ Len(ltm_doc) > Len(InitialTemplate)
    /\ messages # <<>>

-----------------------------------------------------------------------------
(* Properties of flush_ltm and of the long-term memory file                *)

\* This step is a call of flush_ltm (by /c or at the end of the session).
FlushStep == pc = "idle" /\ flush_outcome' # "none"

\* The calls of the history made to op.
CallsTo(log, op) == SelectSeq(log, LAMBDA call : call.op = op)

\* Some store call of the history raised.
StoreRaised(log) ==
    \E k \in DOMAIN log :
        log[k].op \in {"store_items", "append_turn"} /\ log[k].raised

\* seq is a prefix of other.
IsPrefix(seq, other) ==
    Len(seq) <= Len(other) /\ SubSeq(other, 1, Len(seq)) = seq

\* C16: flush_ltm called with an empty Agent._ltm_buffer makes no call at
\* all, so none to the provider and none to the store, and leaves the file
\* as it was.
C16_EmptyBufferFlushDoesNothing ==
    [][(FlushStep /\ ltm_buffer = <<>>) =>
          /\ flush_outcome' = "skipped"
          /\ flush_log' = <<>>
          /\ Render(ltm_doc') = Render(ltm_doc)
          /\ ltm_buffer' = <<>>]_vars

\* /c was given with long-term memory enabled, a file holding notes and
\* nothing buffered: the flush was skipped and the conversation cleared.
C16_Witness ==
    /\ ltm_enabled
    /\ flush_outcome = "skipped"
    /\ flush_log = <<>>
    /\ pc = "idle"
    /\ messages = <<>>
    /\ Len(ltm_doc) > Len(InitialTemplate)

\* C17: once flush_ltm has finished, by returning from the batch path, by
\* returning from the fallback or by raising from the fallback,
\* Agent._ltm_buffer is empty.
C17_BufferEmptyAfterFlush ==
    /\ [](flush_outcome \in {"skipped", "returned", "raised"} =>
             ltm_buffer = <<>>)
    /\ [][FlushStep => ltm_buffer' = <<>>]_vars

\* The batch call failed, the fallback raised on a denied write, and the
\* buffer is empty.
C17_Witness ==
    /\ flush_outcome = "raised"
    /\ Len(flush_log) >= 2
    /\ flush_log[1].op = "chat_completion"
    /\ flush_log[Len(flush_log)].op = "append_turn"
    /\ flush_log[Len(flush_log)].raised
    /\ ltm_buffer = <<>>

\* C18: when the extraction call of flush_ltm raises and the store raises
\* nowhere, flush_ltm returns; its calls are that one provider call and then
\* one append_turn per buffered turn, in buffer order; the file keeps what
\* it held and then holds every item the heuristic extracts from every
\* buffered turn.
C18_ProviderFailureFallsBack ==
    [][(/\ FlushStep
        /\ flush_log' # <<>>
        /\ flush_log'[1].raised
        /\ ~StoreRaised(flush_log')) =>
          /\ flush_outcome' = "returned"
          /\ Len(CallsTo(flush_log', "chat_completion")) = 1
          /\ CallsTo(flush_log', "store_items") = <<>>
          /\ Len(flush_log') = 1 + Len(ltm_buffer)
          /\ \A k \in DOMAIN ltm_buffer :
                /\ flush_log'[k + 1].op = "append_turn"
                /\ flush_log'[k + 1].arg = ltm_buffer[k]
          /\ IsPrefix(ltm_doc, ltm_doc')
          /\ \A k \in DOMAIN ltm_buffer :
                LET items == ExtractDurableItems(ltm_buffer[k][1], ltm_buffer[k][2])
                IN  \A j \in DOMAIN items :
                        ItemKey(items[j].kind, items[j].text)
                            \in ExistingItemSet(ltm_doc')]_vars

\* The extraction call failed with two turns buffered, and the fallback
\* wrote the decision of the second after handling the first.
C18_Witness ==
    /\ flush_outcome = "returned"
    /\ Len(flush_log) = 3
    /\ flush_log[1].op = "chat_completion"
    /\ flush_log[1].raised
    /\ flush_log[2].arg = <<"I prefer tabs over spaces. Is that ok?", "Done.">>
    /\ flush_log[3].arg = <<"hi", "We will use tabs from now on.">>
    /\ ltm_doc[Len(ltm_doc)] = Bullet("DECISION", "We will use tabs from now on.")
    /\ \E k \in DOMAIN ltm_doc :
          ltm_doc[k] = Bullet("PREFERENCE", "I prefer tabs over spaces.")

\* C19: a persistence fault that leaves flush_ltm never ends the session by
\* an exception: wherever flush_ltm was called, the REPL is back at its
\* prompt (or has returned) and the fault was shown.
C19_FlushFaultIsCaughtAndReported ==
    /\ pc # "crashed"
    /\ flush_outcome = "raised" => turn_report = "PersistenceError"

\* C20: store_items([]) leaves the bytes of the file as they were: when the
\* extraction reply holds no item, reading the file before and after the
\* store_items call gives the same text.
C20_StoringNothingKeepsBytes ==
    [][(/\ FlushStep
        /\ CallsTo(flush_log', "store_items") # <<>>
        /\ CallsTo(flush_log', "store_items")[1].arg = <<>>) =>
          /\ ~CallsTo(flush_log', "store_items")[1].raised
          /\ flush_outcome' = "returned"
          /\ Render(ltm_doc') = Render(ltm_doc)]_vars

\* store_items([]) was called on a file that holds a block of notes.
C20_Witness ==
    /\ flush_outcome = "returned"
    /\ Len(flush_log) = 2
    /\ flush_log[2].op = "store_items"
    /\ flush_log[2].arg = <<>>
    /\ \E k \in DOMAIN ltm_doc : ltm_doc[k].kind = "heading"

-----------------------------------------------------------------------------
(* Properties of the LongTermMemory methods                                *)

\* The last call on the LongTermMemory was op and it returned.
Returned(op) == ltm_call.op = op /\ ~ltm_call.raised

\* The texts of the bullets of a file.
BulletTexts(doc) ==
    { doc[k].text : k \in { j \in DOMAIN doc :
                               doc[j].kind = "bullet" /\ doc[j].text # "" } }

\* The candidate is as similar as dedup_threshold to a bullet of the file.
Similar(candidate, doc) ==
    \E text \in BulletTexts(doc) :
        RatioAtLeastThreshold(Normalize(candidate), Normalize(text))

\* The items of a batch that are similar to no bullet of the file.
Fresh(items, doc) == SelectSeq(items, LAMBDA item : ~Similar(item, doc))

\* The header of a file: its text before the first "\n### ".  The newline
\* of the marker ends the empty line before the heading.
Header(doc) ==
    IF MarkerLines(doc) = {} THEN doc
    ELSE SubSeq(doc, 1, NthMarker(doc, 1) - 2)

\* The n-th dated block of a file: from its heading to the next "\n### ".
Block(doc, n) ==
    SubSeq(doc, NthMarker(doc, n),
           IF n = BlockCount(doc) THEN Len(doc) ELSE NthMarker(doc, n + 1) - 2)

Blocks(doc) == [n \in 1..BlockCount(doc) |-> Block(doc, n)]

\* C21: when store_items returns, the file is unchanged if every candidate
\* is as similar as dedup_threshold to a bullet the file held; otherwise the
\* file has gained exactly one dated block, its last one, which holds the
\* candidates that are similar to no bullet of the file and only them.
C21_DedupAgainstExistingItems ==
    (Returned("store_items") /\ ltm_call.fault = "none") =>
        LET before == ltm_call.before
            fresh  == Fresh(ltm_call.arg, before)
            block  == <<Heading(Strftime(clock))>> \o
                      [k \in DOMAIN fresh |-> Bullet("", fresh[k])]
        IN  IF fresh = <<>> THEN ltm_doc = before
            ELSE /\ BlockCount(ltm_doc) >= 1
                 /\ Block(ltm_doc, BlockCount(ltm_doc)) = block
                 /\ \/ ltm_doc = before \o <<TextLine("")>> \o block
                    \/ BlockCount(before) >= max_entries

\* A batch held a candidate that only resembles a stored bullet and one that
\* resembles none: the first was dropped, the second was appended.
C21_Witness ==
    /\ Returned("store_items")
    /\ ltm_call.fault = "none"
    /\ \E k \in DOMAIN ltm_call.arg :
          /\ Similar(ltm_call.arg[k], ltm_call.before)
          /\ ltm_call.arg[k] \notin BulletTexts(ltm_call.before)
    /\ Fresh(ltm_call.arg, ltm_call.before) # <<>>
    /\ ltm_doc # ltm_call.before

\* The smaller of two numbers.
Min(a, b) == IF a < b THEN a ELSE b

\* The last call was a store that had something to write and was not denied:
\* store_items with a candidate similar to no bullet of the file, or
\* append_turn with a durable item whose key the file did not hold.
Wrote ==
    /\ ltm_call.fault = "none"
    /\ \/ /\ ltm_call.op = "store_items"
          /\ Fresh(ltm_call.arg, ltm_call.before) # <<>>
       \/ /\ ltm_call.op = "append_turn"
          /\ LET items == ExtractDurableItems(ltm_call.arg[1], ltm_call.arg[2])
             IN  \E k \in DOMAIN items :
                     ItemKey(items[k].kind, items[k].text)
                         \notin ExistingItemSet(ltm_call.before)

\* C22: with max_entries >= 1, after a store_items or append_turn call that
\* wrote, the file holds at most max_entries dated blocks, the header is the
\* one the file had, and the blocks are the last max_entries, in their
\* order, of the blocks the file had followed by the new block; a call that
\* wrote nothing leaves the file as it was, whatever number of blocks it
\* held.
C22_RetentionKeepsNewestBlocks ==
    (max_entries >= 1 /\ ltm_call.op \in {"store_items", "append_turn"}) =>
        LET before == ltm_call.before
            new    == Blocks(ltm_doc)
            all    == Blocks(before) \o <<new[Len(new)]>>
        IN  /\ Wrote =>
                  /\ ltm_doc # before
                  /\ BlockCount(ltm_doc) <= max_entries
                  /\ Header(ltm_doc) = Header(before)
                  /\ Len(new) = Min(Len(all), max_entries)
                  /\ new = Suffix(all, Len(new))
            /\ ~Wrote => ltm_doc = before

\* A store on a file that held two blocks, one more than max_entries = 1,
\* wrote a third one: only the new block is left, under the same header.
C22_Witness ==
    /\ max_entries = 1
    /\ ltm_call.op \in {"store_items", "append_turn"}
    /\ Wrote
    /\ BlockCount(ltm_call.before) = 2
    /\ BlockCount(ltm_doc) = 1
    /\ Block(ltm_doc, 1) \notin {Block(ltm_call.before, 1),
                                  Block(ltm_call.before, 2)}
    /\ Header(ltm_doc) = Header(ltm_call.before)

\* C22 as the specification states it: with max_entries >= 1, after every
\* store_items or append_turn call the file holds at most max_entries dated
\* blocks; when blocks were dropped they are the oldest ones, and the header
\* is the one the file had.
C22_RetentionAfterEveryStore ==
    (max_entries >= 1 /\ ltm_call.op \in {"store_items", "append_turn"}) =>
        LET before == ltm_call.before
            new    == Blocks(ltm_doc)
        IN  /\ BlockCount(ltm_doc) <= max_entries
            /\ Header(ltm_doc) = Header(before)
            /\ ltm_doc # before =>
                  LET all == Blocks(before) \o <<new[Len(new)]>>
                  IN  new = Suffix(all, Len(new))

\* C23: a store_items call during which reads are denied returns only when
\* it had no item to store, and one during which writes are denied returns
\* only when it had nothing to write; otherwise it raises.
C23_StoreFaultPropagates ==
    (ltm_call.op = "store_items" /\ ~ltm_call.raised) =>
        /\ ltm_call.fault = "read" => ltm_call.arg = <<>>
        /\ ltm_call.fault = "write" =>
               Fresh(ltm_call.arg, ltm_call.before) = <<>>
        /\ ltm_call.fault # "none" => ltm_doc = ltm_call.before

\* store_items had an item to write, the write was denied, and it raised.
C23_Witness ==
    /\ ltm_call.op = "store_items"
    /\ ltm_call.fault = "write"
    /\ Fresh(ltm_call.arg, ltm_call.before) # <<>>
    /\ ltm_call.raised

\* C24: read() returns the whole text of the file and leaves the file as it
\* is, so a read that follows a read returns the same text; clear() leaves
\* the template, whatever the file held, so a clear that follows a clear
\* changes nothing.
C24_ReadAndClearAreIdempotent ==
    /\ [](Returned("read") =>
            /\ ltm_doc = ltm_call.before
            /\ ltm_call.result = <<Render(ltm_call.before)>>)
    /\ [](Returned("clear") => ltm_doc = InitialTemplate)
    /\ [][ /\ (Returned("read") /\ Returned("read")') =>
                  (ltm_call'.result = ltm_call.result /\ ltm_doc' = ltm_doc)
           /\ (Returned("clear") /\ Returned("clear")') =>
                  ltm_doc' = ltm_doc ]_vars

\* clear() was applied to a file that holds the template again after a
\* store had been made.
C24_Witness ==
    /\ Returned("clear")
    /\ ltm_call.before = InitialTemplate
    /\ ltm_doc = InitialTemplate
    /\ clock > 1

\* seq is the end of other.
IsSuffix(seq, other) ==
    /\ Len(seq) <= Len(other)
    /\ seq = Suffix(other, Len(seq))

\* C25: the summary is no longer than max_summary_chars, it is the end of
\* the file's text without its surrounding whitespace, and it is that whole
\* text when the text is no longer than max_summary_chars.
C25_SummaryIsBoundedTail ==
    ltm_call.op = "get_summary" =>
        LET summary  == ltm_call.result[1]
            stripped == Strip(ltm_text)
        IN  /\ Len(summary) <= max_summary_chars
            /\ IsSuffix(summary, stripped)
            /\ Len(stripped) <= max_summary_chars => summary = stripped


\* C30: every bullet of the file, written by store_items or by append_turn,
\* is at most 150 characters long.
C30_BulletsAtMost150Chars ==
    \A text \in BulletTexts(ltm_doc) : Len(text) <= 150

-----------------------------------------------------------------------------
(* Properties of tool dispatch and of submission                           *)

\* The argument a tool of the model reads without a default.
RequiredKey(name) == CASE name = "read" -> "path" [] name = "bash" -> "cmd"

\* The request parses and fails in the tool layer: its tool is not
\* registered, or the tool body raises for lack of its argument.
ToolFails(call) ==
    LET args == JsonLoads(call.arguments)
    IN  /\ args.kind = "dict"
        /\ \/ call.name \notin RegisteredTools
           \/ ~HasKey(args.items, RequiredKey(call.name))

\* text.startswith("error:"), on the tool results of the model.
HasErrorPrefix(text) ==
    text \in {"error: tool 'fetch' not found", "error: 'path'", "error: 'cmd'"}

\* The request the for loop of lines 279-318 is at.
CurrentRequest == tool_calls[Len(tool_results) + 1]

\* C26: a request that fails in the tool layer gets a tool result keyed by
\* its id whose content starts with "error:"; dispatching it raises nothing
\* and goes on to the next request or to the appends; and when the loop is
\* back at its head the results, failures included, are the last messages of
\* the conversation.
C26_ToolFailureBecomesErrorResult ==
    /\ [](pc \in {"dispatch", "append", "loop_head"} =>
            \A k \in DOMAIN tool_results :
                /\ tool_results[k].role = "tool"
                /\ tool_results[k].tool_call_id = tool_calls[k].id
                /\ ToolFails(tool_calls[k]) =>
                       HasErrorPrefix(tool_results[k].content))
    /\ []((pc = "loop_head" /\ tool_results # <<>>) =>
            /\ Len(messages) >= Len(tool_results)
            /\ Suffix(messages, Len(tool_results)) = tool_results)
    /\ [][(pc = "dispatch" /\ ToolFails(CurrentRequest)) =>
              /\ pc' # "raised"
              /\ pc' \in {"dispatch", "append"} =>
                     Len(tool_results') = Len(tool_results) + 1]_vars

\* The second iteration of a turn has dispatched a request that made its
\* tool raise, after an iteration whose second request named a missing tool:
\* the first error result is collected, the other is the last message of the
\* conversation.
C26_Witness ==
    /\ pc = "dispatch"
    /\ iteration = 2
    /\ tool_results = <<ToolMsg("c0", "error: 'cmd'")>>
    /\ messages # <<>>
    /\ messages[Len(messages)] = ToolMsg("b2", "error: tool 'fetch' not found")

\* C27: a request whose argument payload does not parse does not abort the
\* turn: process_user_input is not left by an exception at that request.
C27_MalformedArgumentsDoNotAbort ==
    ~(/\ pc = "raised"
      /\ turn_report = "JSONDecodeError"
      /\ JsonLoads(CurrentRequest.arguments).kind = "JSONDecodeError")

\* The session ended by an interrupt of a turn: the turn's stream is still
\* in its locals.
Interrupted == pc \in {"exited", "crashed"} /\ stream # <<>>

\* The message at position i of seq is an assistant message with
\* invocations, and each of them is answered by a tool message after it.
Answered(seq, i) ==
    \A id \in InvocationIds(seq[i].tool_calls) :
        \E j \in (i + 1)..Len(seq) :
            seq[j].role = "tool" /\ seq[j].tool_call_id = id

\* C28: while an iteration streams, when it turns to its requests and while
\* it dispatches them, nothing is appended, whether the iteration goes on or
\* is interrupted; so after an interrupt at one of these points every assistant
\* message with invocations in the window has its tool answers after it, and
\* the last message of the window is not such an assistant message.
C28_InterruptLeavesWindowLinked ==
    /\ [][(pc \in {"streaming", "dispatch"} \/ pc' = "dispatch") =>
              (stm_messages' = stm_messages /\ messages' = messages)]_vars
    /\ [](Interrupted =>
            /\ \A i \in DOMAIN stm_messages :
                  stm_messages[i].role = "assistant" => Answered(stm_messages, i)
            /\ stm_messages # <<>> =>
                  ~(/\ stm_messages[Len(stm_messages)].role = "assistant"
                    /\ stm_messages[Len(stm_messages)].tool_calls # <<>>))

\* The second iteration of a turn was interrupted while its second request
\* was dispatched; the window holds the first iteration's assistant message
\* with its two tool answers.
C28_Witness ==
    /\ Interrupted
    /\ stm_enabled
    /\ iteration = 2
    /\ Len(tool_results) = 1
    /\ Len(tool_calls) = 2
    /\ \E i \in DOMAIN stm_messages :
          /\ stm_messages[i].role = "assistant"
          /\ Len(stm_messages[i].tool_calls) = 2

\* No message of seq is a system message.
NoSystemMessage(seq) == \A k \in DOMAIN seq : seq[k].role # "system"

\* C29: from a submission until the iteration appends, the submitted
\* sequence is one system message followed by exactly the messages the
\* window holds (Agent.messages when no window is configured), none of which
\* is a system message; and a system message is never stored in the window
\* or in Agent.messages.
C29_SubmissionIsSystemThenWindow ==
    /\ pc \in {"streaming", "assembled", "dispatch"} =>
          /\ context_messages # <<>>
          /\ context_messages[1].role = "system"
          /\ Tail(context_messages) =
                 (IF stm_enabled THEN stm_messages ELSE messages)
          /\ NoSystemMessage(Tail(context_messages))
    /\ NoSystemMessage(stm_messages)
    /\ NoSystemMessage(messages)

\* A submission was made with a window that holds fewer messages than the
\* conversation and with a memory file that holds a stored item.
C29_Witness ==
    /\ pc = "streaming"
    /\ stm_enabled
    /\ ltm_enabled
    /\ stm_messages # <<>>
    /\ Len(stm_messages) < Len(messages)
    /\ ltm_doc # InitialTemplate
    /\ Len(context_messages) = Len(stm_messages) + 1

-----------------------------------------------------------------------------
(* Properties of the token estimate, of batch appends and of construction  *)

\* floor(len(name)/4) + floor(len(arguments)/4) summed over the first n
\* invocations of a message.
RECURSIVE InvocationEstimate(_, _)
InvocationEstimate(calls, n) ==
    IF n = 0 THEN 0
    ELSE InvocationEstimate(calls, n - 1)
         + (Len(calls[n].name) \div 4) + (Len(calls[n].arguments) \div 4)

\* The estimate the claim gives for one message.
Estimate(message) ==
    (Len(message.content) \div 4)
    + InvocationEstimate(message.tool_calls, Len(message.tool_calls)) + 5

\* The sum of the estimates of the first n messages of seq.
RECURSIVE EstimateTotal(_, _)
EstimateTotal(seq, n) ==
    IF n = 0 THEN 0 ELSE EstimateTotal(seq, n - 1) + Estimate(seq[n])

\* C31: count_message of the message just added is floor(len(content)/4)
\* plus floor(len(name)/4) + floor(len(arguments)/4) for each invocation
\* plus 5, so at least 5; count_messages of the window, and of the window
\* before the call with the message appended, is the sum of the estimates
\* of its messages, 0 for none, and appending lowers neither.
C31_EstimateIsQuarterLengthPlusFive ==
    /\ count_messages(<<>>) = 0
    /\ count_messages(stm_messages) = EstimateTotal(stm_messages, Len(stm_messages))
    /\ stm_op = "add_message" =>
          LET message == stm_arg[1]
              after   == Append(stm_prev, message)
          IN  /\ count_message(message) = Estimate(message)
              /\ count_message(message) >= 5
              /\ count_messages(after) =
                     count_messages(stm_prev) + count_message(message)
              /\ count_messages(after) >= count_messages(stm_prev)

\* A message with two invocations was added to a window that held a
\* message: its names count for one token each, its content and its
\* arguments for none.
C31_Witness ==
    /\ stm_op = "add_message"
    /\ stm_prev # <<>>
    /\ Len(stm_arg[1].tool_calls) = 2
    /\ count_message(stm_arg[1]) = 7

\* The last call was a store_items on a file that could take one more block
\* within max_entries, or with max_entries = 0, where _trim_entries removes
\* nothing.
NoTrimTriggered ==
    /\ ltm_call.op = "store_items"
    /\ \/ BlockCount(ltm_call.before) + 1 <= max_entries
       \/ max_entries = 0

\* C32: after a store_items call that triggers no trimming, the lines the
\* file had are its first lines, and its bytes are the bytes it had
\* followed by the bytes of the lines added.
C32_StoreItemsOnlyAppends ==
    NoTrimTriggered =>
        LET before == ltm_call.before
            added  == SubSeq(ltm_doc, Len(before) + 1, Len(ltm_doc))
        IN  /\ Len(before) <= Len(ltm_doc)
            /\ SubSeq(ltm_doc, 1, Len(before)) = before
            /\ Render(ltm_doc) = Render(before) \o Render(added)
            /\ (Wrote <=> added # <<>>)

\* store_items wrote a second block after the one the file held.
C32_Witness ==
    /\ NoTrimTriggered
    /\ Wrote
    /\ BlockCount(ltm_call.before) = 1
    /\ BlockCount(ltm_doc) = 2
    /\ Block(ltm_doc, 1) = Block(ltm_call.before, 1)

\* This step is a reset_conversation that returned: the prompt is shown
\* again after a flush that did not raise.
ResetReturned ==
    /\ pc = "idle"
    /\ pc' = "idle"
    /\ flush_outcome' \in {"skipped", "returned"}

\* C33: when reset_conversation returns, Agent.messages, the window and
\* Agent._ltm_buffer are empty, and with long-term memory enabled the flush
\* it made was given the turns buffered before the reset: its first call is
\* the extraction over the whole buffer, and every append_turn it made is
\* for a buffered turn.
C33_ResetFlushesThenClears ==
    [][ResetReturned =>
          /\ messages' = <<>>
          /\ stm_messages' = <<>>
          /\ ltm_buffer' = <<>>
          /\ (ltm_enabled /\ ltm_buffer # <<>>) =>
                /\ flush_outcome' = "returned"
                /\ flush_log' # <<>>
                /\ flush_log'[1].op = "chat_completion"
                /\ flush_log'[1].arg = ltm_buffer
                /\ \A k \in DOMAIN flush_log' :
                      flush_log'[k].op = "append_turn" =>
                          \E j \in DOMAIN ltm_buffer :
                              flush_log'[k].arg = ltm_buffer[j]
          /\ (~ltm_enabled \/ ltm_buffer = <<>>) => flush_log' = <<>>]_vars

\* /c was given after two buffered turns: the flush extracted from both and
\* stored, and the conversation is cleared.
C33_Witness ==
    /\ pc = "idle"
    /\ flush_outcome = "returned"
    /\ flush_log # <<>>
    /\ Len(flush_log[1].arg) = 2
    /\ flush_log[Len(flush_log)].op = "store_items"
    /\ messages = <<>>
    /\ stm_messages = <<>>
    /\ stm_op = "clear"
    /\ Len(stm_prev) > 0
    /\ ltm_buffer = <<>>

\* memory_config is the one MemoryConfig() builds.
DefaultMemoryConfig ==
    /\ max_tokens = DefaultMaxContextTokens
    /\ max_messages = DefaultMaxRecentMessages
    /\ stm_enabled
    /\ ltm_enabled
    /\ max_summary_chars = DefaultMaxSummaryChars
    /\ max_entries = DefaultMaxEntries

\* C34: Agent.__init__ called with the default MemoryConfig, long-term
\* memory enabled, returns an Agent whose LongTermMemory has the max_entries
\* of the configuration, and no construction ends in an AttributeError for
\* a field the configuration lacks.
C34_DefaultConstructionSucceeds ==
    /\ [][(pc = "new" /\ DefaultMemoryConfig) =>
             /\ pc' = "constructed"
             /\ ltm_enabled'
             /\ max_entries' = DefaultMaxEntries]_vars
    /\ [][pc = "new" => turn_report' # "AttributeError"]_vars

\* C35: in the messages of every submission, each invocation that an
\* assistant message declares, whatever its id, is answered by a tool
\* message with that id further on.
C35_SubmittedInvocationsAreAnswered ==
    pc = "streaming" =>
        \A i \in DOMAIN context_messages :
            context_messages[i].role = "assistant" =>
                Answered(context_messages, i)

\* The indexes of the bullets of a file.
BulletLines(doc) ==
    { k \in DOMAIN doc : doc[k].kind = "bullet" /\ doc[k].text # "" }

\* The number of the dated block that holds line k of a file.
BlockOf(doc, k) == Cardinality({ m \in MarkerLines(doc) : m <= k })

\* C36: in a file that started as the template and was changed by
\* store_items calls only, no bullet is as similar as dedup_threshold to
\* another bullet, whether the two came in one batch or in two.
C36_NoTwoSimilarBullets ==
    \A i, j \in BulletLines(ltm_doc) :
        i # j =>
            ~RatioAtLeastThreshold(Normalize(ltm_doc[i].text),
                                   Normalize(ltm_doc[j].text))

\* The part of C36 about bullets of different blocks, that is of different
\* store_items calls.
NoTwoSimilarBulletsAcrossBlocks ==
    \A i, j \in BulletLines(ltm_doc) :
        BlockOf(ltm_doc, i) # BlockOf(ltm_doc, j) =>
            ~RatioAtLeastThreshold(Normalize(ltm_doc[i].text),
                                   Normalize(ltm_doc[j].text))

\* The elements of part occur in doc, one after the other.
Contains(doc, part) ==
    \E k \in 0..(Len(doc) - Len(part)) :
        SubSeq(doc, k + 1, k + Len(part)) = part

\* C37: when both processes have finished their store_items call on the
\* shared file and max_entries is large enough for nothing to be trimmed,
\* the file holds the block of every process that had something to write.
C37_NoLostUpdate ==
    (/\ max_entries = DefaultMaxEntries
     /\ \A s \in DOMAIN sessions : sessions[s].at = "done") =>
        \A s \in DOMAIN sessions :
            sessions[s].entry # <<>> => Contains(ltm_text, sessions[s].entry)

\* The window after add_message was called for each element of batch, in
\* order, starting from window.
RECURSIVE AddEach(_, _, _, _)
AddEach(window, batch, maxm, maxt) ==
    IF batch = <<>> THEN window
    ELSE AddEach(AddMessageResult(window, Head(batch), maxm, maxt),
                 Tail(batch), maxm, maxt)

\* C38: after add_messages(ms) the window is the one that add_message,
\* called once for each element of ms in order, would have left.
C38_BatchEqualsIncremental ==
    stm_op = "add_messages" =>
        stm_messages = AddEach(stm_prev, stm_arg, max_messages, max_tokens)

\* This step is a reset_conversation: the prompt is shown again after a
\* flush_ltm call, whether it returned or raised.
ResetStep ==
    /\ pc = "idle"
    /\ pc' = "idle"
    /\ flush_outcome' # "none"

\* C39: once reset_conversation has returned or has propagated the error of
\* its flush, Agent.messages and the window are empty.
C39_ResetAlwaysClears ==
    [][ResetStep => (messages' = <<>> /\ stm_messages' = <<>>)]_vars

\* Both processes read the template and opened the file, the second wrote
\* "Prefers tabs over spaces" and then the first wrote the shorter "Uses
\* pytest for tests": the file ends with the last bytes of the longer text.
MixedWrite ==
    /\ \A s \in DOMAIN sessions : sessions[s].at = "written"
    /\ ltm_text = RenderChars(InitialTemplate)
                      \o Chars("") \o <<"\n", "#", "#", "#", " ">>
                      \o Chars(Strftime(1)) \o <<"\n", "-", " ">>
                      \o Chars("Uses pytest for tests")
                      \o <<"\n", "e", "s", "\n">>

=============================================================================
